---- MODULE Spec2Model ----
(***************************************************************************)
(* A model of the Filler move chooser: the placement validator             *)
(* (placement.rs), the territory heuristics (ai/heuristics.rs) and the     *)
(* strategy selectors (ai/strategies.rs, ai/advanced_strategies.rs,        *)
(* ai/evaluator.rs, ai/optimized_evaluator.rs, ai/mod.rs).                 *)
(*                                                                         *)
(* The program is a pipeline of pure functions over one turn's snapshot.   *)
(* The state is the snapshot (game_state), the last call made on it (call) *)
(* and what that call returned (ret).  Every function is an operator that  *)
(* follows the control flow of its source; every action applies one        *)
(* function to inputs drawn from bounded sets.  The batch scorer           *)
(* (ai/optimization.rs) is the one object that lives across calls: context *)
(* holds its two caches, and history logs the operations made on them.     *)
(*                                                                         *)
(* Numbers: usize coordinates are naturals; wrapping_add / wrapping_sub    *)
(* wrap modulo 2^UsizeBits.  f32 scores are kept as exact integers in      *)
(* units of 1/ScoreUnit (heuristics) and 1/(10*ScoreUnit) (strategy        *)
(* scores), so the weights 0.5, 0.8, 1.2, 1.5, 1.8, 2.5 are integers; the  *)
(* rounding of f32 arithmetic is not represented.                          *)
(***************************************************************************)
EXTENDS Integers, Sequences, FiniteSets, TLC

VARIABLES game_state, call, ret, context, history

vars == <<game_state, call, ret, context, history>>

(***************************************************************************)
(* Bounds of the model.                                                    *)
(***************************************************************************)
GridW == 3
GridH == 2
PieceW == 2
PieceH == 2
MaxStones == 3
\* Selection: stones on the board, and the length of a candidate list.
SelectStones == 1
MaxCandidates == 3
\* Flood fill: stones on the board, and the number of seed positions of a
\* direct call.
FloodStones == 2
MaxSeeds == 2
\* The width of usize in the model (64 in the build): wide enough that a
\* wrapped coordinate is never on the board.
UsizeBits == 16

(***************************************************************************)
(* game_state.rs: CellState, Position, Grid, Shape, GameState              *)
(***************************************************************************)
CellState == {"Empty", "Player1", "Player2", "Player1Last", "Player2Last"}

\* Grid::get answers None off the board.
NoCell == "None"

\* Option<Placement>
None == [tag |-> "None"]
Some(v) == [tag |-> "Some", value |-> v]

Position(x, y) == [x |-> x, y |-> y]

GridGet(grid, pos) ==
    IF pos.x < grid.width /\ pos.y < grid.height
    THEN grid.cells[pos.y][pos.x]
    ELSE NoCell

GridSet(grid, pos, state) ==
    IF pos.x < grid.width /\ pos.y < grid.height
    THEN [grid EXCEPT !.cells[pos.y][pos.x] = state]
    ELSE grid

GridIsValid(grid, pos) == pos.x < grid.width /\ pos.y < grid.height

\* Shape::get_filled_positions: the filled cells in row-major order
\* (y outer, x inner), as a sequence.
RECURSIVE FilledFrom(_, _, _)
FilledFrom(shape, k, acc) ==
    IF k >= shape.width * shape.height THEN acc
    ELSE LET x == k % shape.width
             y == k \div shape.width
         IN  FilledFrom(shape, k + 1,
                        IF shape.cells[y][x] THEN Append(acc, Position(x, y)) ELSE acc)

get_filled_positions(shape) == FilledFrom(shape, 0, <<>>)

shape_is_empty(shape) == get_filled_positions(shape) = <<>>

(***************************************************************************)
(* placement.rs                                                            *)
(***************************************************************************)
Ok(v) == [tag |-> "Ok", value |-> v]
Err(e) == [tag |-> "Err", value |-> e]

\* placement.rs get_absolute_positions: base + offset for each filled cell;
\* it never fails.
get_absolute_positions(base_pos, shape) ==
    LET filled == get_filled_positions(shape)
    IN  [i \in 1..Len(filled) |->
            Position(base_pos.x + filled[i].x, base_pos.y + filled[i].y)]

\* Placement::get_absolute_positions
placement_absolute_positions(p) == get_absolute_positions(p.position, p.shape)

\* The arms of the match on a covered cell: "empty", "own" or "opponent".
CellClassOwnLastIsOpponent(cell, player_num) ==
    IF cell = "Empty" THEN "empty"
    ELSE IF cell = "Player1" /\ player_num = 1 THEN "own"
    ELSE IF cell = "Player2" /\ player_num = 2 THEN "own"
    ELSE "opponent"

CellClassOpponentIsEmpty(cell, player_num) ==
    IF cell = "Empty" THEN "empty"
    ELSE IF cell \in {"Player1", "Player1Last"} /\ player_num = 1 THEN "own"
    ELSE IF cell \in {"Player2", "Player2Last"} /\ player_num = 2 THEN "own"
    ELSE "empty"

CellClass(cell, player_num) ==
    IF cell = "Empty" THEN "empty"
    ELSE IF cell \in {"Player1", "Player1Last"} /\ player_num = 1 THEN "own"
    ELSE IF cell \in {"Player2", "Player2Last"} /\ player_num = 2 THEN "own"
    ELSE IF cell \in {"Player1", "Player1Last"} THEN "opponent"
    ELSE "opponent"

\* The loop over absolute_positions: the first cell that is off the board or
\* the opponent's ends the scan with its error; otherwise the number of own
\* cells covered is returned.
RECURSIVE ScanCells(_, _, _, _)
ScanCells(gs, positions, i, territory_touches) ==
    IF i > Len(positions) THEN Ok(territory_touches)
    ELSE LET cell == GridGet(gs.grid, positions[i])
         IN  IF cell = NoCell THEN Err("OutOfBounds")
             ELSE LET class == CellClass(cell, gs.player_number)
                  IN  IF class = "empty"
                      THEN ScanCells(gs, positions, i + 1, territory_touches)
                      ELSE IF class = "own"
                      THEN ScanCells(gs, positions, i + 1, territory_touches + 1)
                      ELSE Err("CollisionWithOpponent")

\* The final match on territory_touches.
MatchTouchesAtLeastOne(gs, placement_pos, absolute_positions, territory_touches) ==
    IF territory_touches = 0 THEN Err("NoTerritoryContact")
    ELSE Ok([position |-> placement_pos,
             shape |-> gs.current_piece,
             cells_added |-> Len(absolute_positions) - 1,
             territory_touches |-> territory_touches])

\* A match that reports the second own cell with the unused variant.
MatchTouchesCollisionWithSelf(gs, placement_pos, absolute_positions, territory_touches) ==
    IF territory_touches = 0 THEN Err("NoTerritoryContact")
    ELSE IF territory_touches = 1
    THEN Ok([position |-> placement_pos,
             shape |-> gs.current_piece,
             cells_added |-> Len(absolute_positions) - 1,
             territory_touches |-> territory_touches])
    ELSE Err("CollisionWithSelf")

MatchTouches(gs, placement_pos, absolute_positions, territory_touches) ==
    IF territory_touches = 0 THEN Err("NoTerritoryContact")
    ELSE IF territory_touches = 1
    THEN Ok([position |-> placement_pos,
             shape |-> gs.current_piece,
             cells_added |-> Len(absolute_positions) - 1,
             territory_touches |-> territory_touches])
    ELSE Err("MultipleContacts")

ValidateNonEmpty(gs, placement_pos) ==
    LET absolute_positions == get_absolute_positions(placement_pos, gs.current_piece)
        scan == ScanCells(gs, absolute_positions, 1, 0)
    IN  IF scan.tag = "Err" THEN scan
        ELSE MatchTouches(gs, placement_pos, absolute_positions, scan.value)

validate_placement_unchecked(gs, placement_pos) == ValidateNonEmpty(gs, placement_pos)

validate_placement(gs, placement_pos) ==
    IF shape_is_empty(gs.current_piece) THEN Err("EmptyShape")
    ELSE ValidateNonEmpty(gs, placement_pos)

\* find_all_valid_placements: y outer, x inner, successes kept in scan order.
RECURSIVE FindAllFrom(_, _, _)
FindAllFrom(gs, k, valid_placements) ==
    IF k >= gs.grid.width * gs.grid.height THEN valid_placements
    ELSE LET pos == Position(k % gs.grid.width, k \div gs.grid.width)
             r == validate_placement(gs, pos)
         IN  FindAllFrom(gs, k + 1,
                         IF r.tag = "Ok" THEN Append(valid_placements, r.value)
                         ELSE valid_placements)

find_all_valid_placements_skip_last_row(gs) ==
    FindAllFrom([gs EXCEPT !.grid.height = gs.grid.height - 1], 0, <<>>)

find_all_valid_placements(gs) == FindAllFrom(gs, 0, <<>>)

\* A neighbour list that starts with the position itself.
get_neighbors_with_self(pos, width, height) ==
    << pos >>
    \o (IF pos.y > 0 THEN << Position(pos.x, pos.y - 1) >> ELSE << >>)
    \o (IF pos.y + 1 < height THEN << Position(pos.x, pos.y + 1) >> ELSE << >>)
    \o (IF pos.x > 0 THEN << Position(pos.x - 1, pos.y) >> ELSE << >>)
    \o (IF pos.x + 1 < width THEN << Position(pos.x + 1, pos.y) >> ELSE << >>)

\* get_neighbors: up, down, left, right, those the guards let through.
get_neighbors(pos, width, height) ==
    (IF pos.y > 0 THEN << Position(pos.x, pos.y - 1) >> ELSE << >>)
    \o (IF pos.y + 1 < height THEN << Position(pos.x, pos.y + 1) >> ELSE << >>)
    \o (IF pos.x > 0 THEN << Position(pos.x - 1, pos.y) >> ELSE << >>)
    \o (IF pos.x + 1 < width THEN << Position(pos.x + 1, pos.y) >> ELSE << >>)

\* A body of `for neighbor_pos in neighbors` with no test that the placement
\* covers the territory position.
RECURSIVE TouchNeighborsAnyPlacement(_, _, _, _, _)
TouchNeighborsAnyPlacement(gs, territory_pos, neighbors, j, valid_placements) ==
    IF j > Len(neighbors) THEN valid_placements
    ELSE LET r == validate_placement(gs, neighbors[j])
         IN  TouchNeighborsAnyPlacement(gs, territory_pos, neighbors, j + 1,
                IF /\ r.tag = "Ok"
                   /\ \A k \in 1..Len(valid_placements) :
                          valid_placements[k].position # r.value.position
                THEN Append(valid_placements, r.value)
                ELSE valid_placements)

\* The body of `for neighbor_pos in neighbors`, from neighbour j on.
RECURSIVE TouchNeighbors(_, _, _, _, _)
TouchNeighbors(gs, territory_pos, neighbors, j, valid_placements) ==
    IF j > Len(neighbors) THEN valid_placements
    ELSE LET r == validate_placement(gs, neighbors[j])
             covered == placement_absolute_positions(r.value)
         IN  TouchNeighbors(gs, territory_pos, neighbors, j + 1,
                IF /\ r.tag = "Ok"
                   /\ \E k \in 1..Len(covered) : covered[k] = territory_pos
                   /\ \A k \in 1..Len(valid_placements) :
                          valid_placements[k].position # r.value.position
                THEN Append(valid_placements, r.value)
                ELSE valid_placements)

\* The body of `for &territory_pos in territory_positions`, from position i on.
RECURSIVE TouchFrom(_, _, _, _)
TouchFrom(gs, territory_positions, i, valid_placements) ==
    IF i > Len(territory_positions) THEN valid_placements
    ELSE TouchFrom(gs, territory_positions, i + 1,
                   TouchNeighbors(gs, territory_positions[i],
                                  get_neighbors(territory_positions[i],
                                                gs.grid.width, gs.grid.height),
                                  1, valid_placements))

find_placements_touching_territory(gs, territory_positions) ==
    TouchFrom(gs, territory_positions, 1, << >>)

(***************************************************************************)
(* Numbers                                                                 *)
(***************************************************************************)
UsizeMod == 2 ^ UsizeBits

wrapping_add(a, b) == (a + b) % UsizeMod

wrapping_sub(a, b) == (a + UsizeMod - b) % UsizeMod

\* (v as i32 + d) as usize, for a small v and d: a negative sum wraps.
I32AsUsize(v) == (v + UsizeMod) % UsizeMod

RECURSIVE Gcd(_, _)
Gcd(a, b) == IF b = 0 THEN a ELSE Gcd(b, a % b)

RECURSIVE LcmUpTo(_)
LcmUpTo(n) == IF n <= 1 THEN 1 ELSE LET l == LcmUpTo(n - 1) IN (l * n) \div Gcd(l, n)

\* An f32 score v is kept as the integer v * ScoreUnit.  Every score of the
\* program is a multiple of 1 / (100 * k) for a number k of covered cells,
\* so all the products and quotients below are exact.
ScoreUnit == 100 * LcmUpTo(PieceW * PieceH)

F32(n) == n * ScoreUnit

\* v * (num / den) for an f32 weight num / den.
Times(v, num, den) == (v * num) \div den

\* `v as usize` for a non-negative f32: the fraction is dropped.
AsUsize(v) == v \div ScoreUnit

(***************************************************************************)
(* ai/heuristics.rs                                                        *)
(***************************************************************************)
Neighbors4(pos) ==
    << Position(wrapping_add(pos.x, 1), pos.y),
       Position(wrapping_sub(pos.x, 1), pos.y),
       Position(pos.x, wrapping_add(pos.y, 1)),
       Position(pos.x, wrapping_sub(pos.y, 1)) >>

\* A seeding loop with no is_valid test.
RECURSIVE FloodSeedUnchecked(_, _, _, _)
FloodSeedUnchecked(grid, start_positions, i, st) ==
    IF i > Len(start_positions) THEN st
    ELSE FloodSeedUnchecked(grid, start_positions, i + 1,
                            [st EXCEPT !.queue = Append(@, start_positions[i]),
                                       !.visited = @ \cup {start_positions[i]}])

\* The seeding loop of flood_fill_reachable: st = [queue, visited, reachable_count].
RECURSIVE FloodSeed(_, _, _, _)
FloodSeed(grid, start_positions, i, st) ==
    IF i > Len(start_positions) THEN st
    ELSE FloodSeed(grid, start_positions, i + 1,
                   IF GridIsValid(grid, start_positions[i])
                   THEN [st EXCEPT !.queue = Append(@, start_positions[i]),
                                   !.visited = @ \cup {start_positions[i]}]
                   ELSE st)

\* A traversal that goes on through own territory as it does through Empty.
FloodVisitThroughOwn(grid, neighbor, st) ==
    IF neighbor \notin st.visited /\ GridIsValid(grid, neighbor)
    THEN LET state == GridGet(grid, neighbor)
         IN  IF state \in {"Empty", "Player1", "Player1Last"}
             THEN [queue |-> Append(st.queue, neighbor),
                   visited |-> st.visited \cup {neighbor},
                   reachable_count |-> IF state = "Empty" THEN st.reachable_count + 1
                                       ELSE st.reachable_count]
             ELSE st
    ELSE st

\* The body of `for neighbor in neighbors` for one neighbour.
FloodVisit(grid, neighbor, st) ==
    IF neighbor \notin st.visited /\ GridIsValid(grid, neighbor)
    THEN LET state == GridGet(grid, neighbor)
         IN  IF state \in {"Empty", "Player1", "Player1Last"}
             THEN [queue |-> IF state = "Empty" THEN Append(st.queue, neighbor) ELSE st.queue,
                   visited |-> st.visited \cup {neighbor},
                   reachable_count |-> IF state = "Empty" THEN st.reachable_count + 1
                                       ELSE st.reachable_count]
             ELSE st
    ELSE st

\* One pass of `while let Some(pos) = queue.pop_front()`: the four neighbours
\* of the popped cell, in the order of the source.
FloodStep(grid, st) ==
    LET pos == Head(st.queue)
        n == Neighbors4(pos)
        s0 == [st EXCEPT !.queue = Tail(@)]
    IN  FloodVisit(grid, n[4], FloodVisit(grid, n[3], FloodVisit(grid, n[2],
                                                                 FloodVisit(grid, n[1], s0))))

RECURSIVE FloodLoop(_, _)
FloodLoop(grid, st) ==
    IF st.queue = <<>> THEN st ELSE FloodLoop(grid, FloodStep(grid, st))

FloodStart(grid, start_positions) ==
    FloodSeed(grid, start_positions, 1,
              [queue |-> <<>>, visited |-> {}, reachable_count |-> 0])

flood_fill_reachable(grid, start_positions) ==
    FloodLoop(grid, FloodStart(grid, start_positions)).reachable_count

\* The marking loop of analyze_flood_fill, on the clone of the grid.
RECURSIVE MarkCells(_, _, _)
MarkCells(test_grid, positions, i) ==
    IF i > Len(positions) THEN test_grid
    ELSE MarkCells(IF GridIsValid(test_grid, positions[i])
                   THEN GridSet(test_grid, positions[i], "Player1Last")
                   ELSE test_grid,
                   positions, i + 1)

\* A marking loop that writes to the grid of the snapshot, not to a clone.
analyze_flood_fill_in_place(placement, gs) ==
    LET absolute_positions == placement_absolute_positions(placement)
        marked == MarkCells(gs.grid, absolute_positions, 1)
        reachable == flood_fill_reachable(marked, absolute_positions)
    IN  [value |-> Times(F32(reachable), 5, 2),
         game_state |-> [gs EXCEPT !.grid = marked]]

\* The body of analyze_flood_fill: the value it returns and the snapshot as
\* the call leaves it.  test_grid starts as game_state.grid.clone() and is
\* dropped when the function returns.
analyze_flood_fill_run(placement, gs) ==
    LET absolute_positions == placement_absolute_positions(placement)
        test_grid == MarkCells(gs.grid, absolute_positions, 1)
        reachable == flood_fill_reachable(test_grid, absolute_positions)
    IN  [value |-> Times(F32(reachable), 5, 2),
         game_state |-> gs]

analyze_flood_fill(placement, gs) == analyze_flood_fill_run(placement, gs).value

count_opponent_neighbors(grid, pos) ==
    LET n == Neighbors4(pos)
    IN  Cardinality({i \in 1..4 :
            GridIsValid(grid, n[i]) /\ GridGet(grid, n[i]) \in {"Player2", "Player2Last"}})

RECURSIVE WeakFrom(_, _, _, _)
WeakFrom(gs, abs_positions, i, weak_score) ==
    IF i > Len(abs_positions) THEN weak_score
    ELSE LET pos == abs_positions[i]
             opponent_density == count_opponent_neighbors(gs.grid, pos)
         IN  WeakFrom(gs, abs_positions, i + 1,
                IF ~GridIsValid(gs.grid, pos) THEN weak_score
                ELSE IF opponent_density < 2 THEN weak_score + F32(3)
                ELSE IF opponent_density < 4 THEN weak_score + Times(F32(3), 1, 2)
                ELSE weak_score)

detect_weak_positions(placement, gs) ==
    WeakFrom(gs, placement_absolute_positions(placement), 1, 0)

\* The 5 x 5 square of offsets dx, dy in -2..2 around the centre, the centre
\* left out.
count_nearby_our_territory(grid, center) ==
    Cardinality({d \in ((-2)..2) \X ((-2)..2) :
        /\ ~(d[1] = 0 /\ d[2] = 0)
        /\ LET pos == Position(I32AsUsize(center.x + d[1]), I32AsUsize(center.y + d[2]))
           IN  /\ GridIsValid(grid, pos)
               /\ GridGet(grid, pos) \in {"Player1", "Player1Last"}})

\* st = [density_score, count]
RECURSIVE DensityFrom(_, _, _, _)
DensityFrom(gs, abs_positions, i, st) ==
    IF i > Len(abs_positions) THEN st
    ELSE LET pos == abs_positions[i]
         IN  DensityFrom(gs, abs_positions, i + 1,
                IF GridIsValid(gs.grid, pos)
                THEN [density_score |-> st.density_score
                          + Times(F32(count_nearby_our_territory(gs.grid, pos)), 8, 10),
                      count |-> st.count + 1]
                ELSE st)

analyze_density(placement, gs) ==
    LET st == DensityFrom(gs, placement_absolute_positions(placement), 1,
                          [density_score |-> 0, count |-> 0])
    IN  IF st.count > 0 THEN st.density_score \div st.count ELSE 0

\* A loop that tests is_edge before is_corner: a corner scores as a border cell.
RECURSIVE EdgeFromEdgeFirst(_, _, _, _)
EdgeFromEdgeFirst(grid, abs_positions, i, edge_score) ==
    IF i > Len(abs_positions) THEN edge_score
    ELSE LET pos == abs_positions[i]
             is_edge == \/ pos.x = 0 \/ pos.x = grid.width - 1
                        \/ pos.y = 0 \/ pos.y = grid.height - 1
         IN  EdgeFromEdgeFirst(grid, abs_positions, i + 1,
                IF ~GridIsValid(grid, pos) THEN edge_score
                ELSE IF is_edge THEN edge_score + F32(1)
                ELSE edge_score)

RECURSIVE EdgeFrom(_, _, _, _)
EdgeFrom(grid, abs_positions, i, edge_score) ==
    IF i > Len(abs_positions) THEN edge_score
    ELSE LET pos == abs_positions[i]
             is_corner == /\ (pos.x = 0 \/ pos.x = grid.width - 1)
                          /\ (pos.y = 0 \/ pos.y = grid.height - 1)
             is_edge == \/ pos.x = 0 \/ pos.x = grid.width - 1
                        \/ pos.y = 0 \/ pos.y = grid.height - 1
         IN  EdgeFrom(grid, abs_positions, i + 1,
                IF ~GridIsValid(grid, pos) THEN edge_score
                ELSE IF is_corner THEN edge_score + F32(2)
                ELSE IF is_edge THEN edge_score + F32(1)
                ELSE edge_score)

analyze_edge_control(placement, grid) ==
    EdgeFrom(grid, placement_absolute_positions(placement), 1, 0)

\* The body of advanced_score: the score and the snapshot as the call leaves
\* it.  The heuristics after analyze_flood_fill read the snapshot that call
\* left.
advanced_score_run(placement, gs) ==
    LET base_expansion == F32(placement.cells_added) * 10
        ff == analyze_flood_fill_run(placement, gs)
        flood_fill == ff.value
        weak_positions == detect_weak_positions(placement, ff.game_state)
        density == analyze_density(placement, ff.game_state)
        edge_control == analyze_edge_control(placement, ff.game_state.grid)
    IN  [value |-> base_expansion
                     + Times(flood_fill, 15, 10)
                     + Times(weak_positions, 2, 1)
                     + Times(density, 12, 10)
                     + Times(edge_control, 5, 10),
         game_state |-> ff.game_state]

advanced_score(placement, gs) == advanced_score_run(placement, gs).value

(***************************************************************************)
(* Iterator::max_by / max_by_key as the selectors call it: a left fold     *)
(* that keeps the running best only when it compares Greater than the next *)
(* element.  greater[a][b] is the selector's comparison of the a-th with   *)
(* the b-th candidate (partial_cmp(..).unwrap_or(Equal) for the f32        *)
(* scores, which are never NaN).  The index of the kept element.           *)
(***************************************************************************)
RECURSIVE MaxByFold(_, _, _, _)
MaxByFold(greater, n, i, best) ==
    IF i > n THEN best
    ELSE MaxByFold(greater, n, i + 1, IF greater[best][i] THEN best ELSE i)

MaxBy(placements, greater) ==
    Some(placements[MaxByFold(greater, Len(placements), 2, 1)])

\* The comparison table of a selector that orders candidates by a key:
\* keys[i] is the key (or score) of the i-th candidate.
ByKey(keys) ==
    [a \in 1..Len(keys) |-> [b \in 1..Len(keys) |-> keys[a] > keys[b]]]

(***************************************************************************)
(* ai/strategies.rs                                                        *)
(***************************************************************************)
greedy_expansion_by_touches(placements) ==
    IF placements = <<>> THEN None
    ELSE LET key(p) == p.territory_touches
         IN  MaxBy(placements, ByKey([i \in 1..Len(placements) |-> key(placements[i])]))

greedy_expansion(placements) ==
    IF placements = <<>> THEN None
    ELSE LET key(p) == p.cells_added
         IN  MaxBy(placements, ByKey([i \in 1..Len(placements) |-> key(placements[i])]))

\* A conservative selector that keeps the first of several equally good
\* candidates.
conservative_first_max(placements) ==
    IF placements = <<>> THEN None
    ELSE LET greater ==
                 [a \in 1..Len(placements) |-> [b \in 1..Len(placements) |->
                     IF placements[a].territory_touches = placements[b].territory_touches
                     THEN placements[a].cells_added >= placements[b].cells_added
                     ELSE placements[a].territory_touches > placements[b].territory_touches]]
         IN  MaxBy(placements, greater)

conservative(placements) ==
    IF placements = <<>> THEN None
    ELSE LET greater ==
                 [a \in 1..Len(placements) |-> [b \in 1..Len(placements) |->
                     IF placements[a].territory_touches = placements[b].territory_touches
                     THEN placements[a].cells_added > placements[b].cells_added
                     ELSE placements[a].territory_touches > placements[b].territory_touches]]
         IN  MaxBy(placements, greater)

\* A selector that keeps the first of several equally good candidates.
RECURSIVE FirstMaxFold(_, _, _, _)
FirstMaxFold(greater, n, i, best) ==
    IF i > n THEN best
    ELSE FirstMaxFold(greater, n, i + 1, IF greater[i][best] THEN i ELSE best)

balanced_first_max(placements) ==
    IF placements = <<>> THEN None
    ELSE LET key(p) == (p.cells_added * 2) + p.territory_touches
         IN  Some(placements[FirstMaxFold(ByKey([i \in 1..Len(placements) |-> key(placements[i])]), Len(placements), 2, 1)])

balanced(placements) ==
    IF placements = <<>> THEN None
    ELSE LET key(p) == (p.cells_added * 2) + p.territory_touches
         IN  MaxBy(placements, ByKey([i \in 1..Len(placements) |-> key(placements[i])]))

(***************************************************************************)
(* ai/advanced_strategies.rs                                               *)
(***************************************************************************)
aggressive_expansion(placements, gs) ==
    IF placements = <<>> THEN None
    ELSE LET score(p) == F32(p.cells_added) * 10
                           + Times(analyze_flood_fill(p, gs), 2, 1)
         IN  MaxBy(placements, ByKey([i \in 1..Len(placements) |-> score(placements[i])]))

opportunistic(placements, gs) ==
    IF placements = <<>> THEN None
    ELSE LET score(p) == Times(detect_weak_positions(p, gs), 25, 10)
                           + F32(p.cells_added) * 5
         IN  MaxBy(placements, ByKey([i \in 1..Len(placements) |-> score(placements[i])]))

defensive(placements, gs) ==
    IF placements = <<>> THEN None
    ELSE LET score(p) == Times(analyze_density(p, gs), 2, 1)
                           + F32(p.territory_touches) * 2
                           + Times(analyze_edge_control(p, gs.grid), 15, 10)
         IN  MaxBy(placements, ByKey([i \in 1..Len(placements) |-> score(placements[i])]))

strategic_blocking(placements, gs) ==
    IF placements = <<>> THEN None
    ELSE LET score(p) == Times(detect_weak_positions(p, gs), 18, 10)
                           + F32(p.territory_touches) * 3
                           + F32(p.cells_added) * 3
         IN  MaxBy(placements, ByKey([i \in 1..Len(placements) |-> score(placements[i])]))

\* A selector that answers a fallback placement when there is no candidate.
advanced_balanced_fallback(placements, gs) ==
    IF placements = <<>>
    THEN Some([position |-> Position(0, 0), shape |-> gs.current_piece,
               cells_added |-> 0, territory_touches |-> 0])
    ELSE LET score(p) == advanced_score(p, gs)
         IN  MaxBy(placements, ByKey([i \in 1..Len(placements) |-> score(placements[i])]))

advanced_balanced(placements, gs) ==
    IF placements = <<>> THEN None
    ELSE LET score(p) == advanced_score(p, gs)
         IN  MaxBy(placements, ByKey([i \in 1..Len(placements) |-> score(placements[i])]))

territorial_control(placements, gs) ==
    IF placements = <<>> THEN None
    ELSE LET score(p) == F32(p.cells_added) * 8
                           + Times(analyze_flood_fill(p, gs), 15, 10)
                           + Times(F32(p.territory_touches), 15, 10)
                           + Times(analyze_edge_control(p, gs.grid), 8, 10)
         IN  MaxBy(placements, ByKey([i \in 1..Len(placements) |-> score(placements[i])]))

(***************************************************************************)
(* utils.rs, ai/evaluator.rs                                               *)
(***************************************************************************)
Abs(v) == IF v < 0 THEN -v ELSE v

manhattan_distance(a, b) == Abs(a.x - b.x) + Abs(a.y - b.y)

evaluate_placement(placement, gs) ==
    LET expansion_score == F32(placement.cells_added) * 10
        center_x == gs.grid.width \div 2
        center_y == gs.grid.height \div 2
        distance_to_center == manhattan_distance(placement.position,
                                                 Position(center_x, center_y))
        centrality_bonus == IF distance_to_center < 15
                            THEN Times(F32(15 - distance_to_center), 5, 10)
                            ELSE 0
        adjacency_bonus == F32(placement.territory_touches)
    IN  expansion_score + centrality_bonus + adjacency_bonus

\* sort_by with `b.1.partial_cmp(&a.1)` is a stable sort by falling score: an
\* entry <<placement, score>> goes in front of the first entry of strictly
\* lower score, behind every entry of equal score that came before it.
\* An insertion that goes in front of the entries of equal score.
RECURSIVE InsertSortedBeforeEqual(_, _)
InsertSortedBeforeEqual(sorted, e) ==
    IF sorted = <<>> THEN <<e>>
    ELSE IF e[2] >= Head(sorted)[2] THEN <<e>> \o sorted
    ELSE <<Head(sorted)>> \o InsertSortedBeforeEqual(Tail(sorted), e)

RECURSIVE InsertSorted(_, _)
InsertSorted(sorted, e) ==
    IF sorted = <<>> THEN <<e>>
    ELSE IF e[2] > Head(sorted)[2] THEN <<e>> \o sorted
    ELSE <<Head(sorted)>> \o InsertSorted(Tail(sorted), e)

RECURSIVE SortByScoreDesc(_, _, _)
SortByScoreDesc(scored, i, acc) ==
    IF i > Len(scored) THEN acc
    ELSE SortByScoreDesc(scored, i + 1, InsertSorted(acc, scored[i]))

rank_placements(placements, gs) ==
    LET scored == [i \in 1..Len(placements) |->
                      <<placements[i], evaluate_placement(placements[i], gs)>>]
    IN  SortByScoreDesc(scored, 1, <<>>)

select_best_placement(placements, gs) ==
    IF placements = <<>> THEN None
    ELSE Some(rank_placements(placements, gs)[1][1])

(***************************************************************************)
(* ai/optimization.rs, ai/optimized_evaluator.rs                           *)
(***************************************************************************)
\* FloodFillCache / DensityCache: a map from (x, y) to the stored usize.
EmptyCache == << >>

\* A get_or_compute with no lookup: the closure runs on every call and its
\* value replaces the stored one.
CacheGetOrComputeNoLookup(cache, key, computed) ==
    [value |-> computed, invoked |-> TRUE,
     cache |-> [k \in DOMAIN cache \cup {key} |-> IF k = key THEN computed ELSE cache[k]]]

\* get_or_compute: `computed` is what the closure returns if it is run, and
\* `invoked` tells whether it was run.
CacheGetOrCompute(cache, key, computed) ==
    IF key \in DOMAIN cache
    THEN [value |-> cache[key], invoked |-> FALSE, cache |-> cache]
    ELSE [value |-> computed, invoked |-> TRUE, cache |-> cache @@ (key :> computed)]

CacheClear(cache) == EmptyCache

\* stats().entries
CacheEntries(cache) == Cardinality(DOMAIN cache)

NewScoringContext == [flood_fill_cache |-> EmptyCache, density_cache |-> EmptyCache]

ContextReset(ctx) ==
    [flood_fill_cache |-> CacheClear(ctx.flood_fill_cache),
     density_cache |-> CacheClear(ctx.density_cache)]

\* A loop whose early-termination test lets one more iteration through.
RECURSIVE BoundedLoopOneMore(_, _, _, _)
BoundedLoopOneMore(grid, st, iterations, max_iterations) ==
    IF st.queue = <<>> THEN st
    ELSE IF iterations > max_iterations THEN [st EXCEPT !.queue = Tail(@)]
    ELSE BoundedLoopOneMore(grid, FloodStep(grid, st), iterations + 1, max_iterations)

\* The while loop of flood_fill_bounded: the cell is popped, then the
\* iteration count is tested, then the four neighbours are visited as in
\* flood_fill_reachable.
RECURSIVE BoundedLoop(_, _, _, _)
BoundedLoop(grid, st, iterations, max_iterations) ==
    IF st.queue = <<>> THEN st
    ELSE IF iterations >= max_iterations THEN [st EXCEPT !.queue = Tail(@)]
    ELSE BoundedLoop(grid, FloodStep(grid, st), iterations + 1, max_iterations)

flood_fill_bounded(grid, start_positions, max_iterations) ==
    BoundedLoop(grid, FloodStart(grid, start_positions), 0, max_iterations).reachable_count

\* A key that keeps the row of the first covered cell only.
CacheKeyRowOnly(abs_positions) == <<0, abs_positions[1].y>>

\* A key taken from the last covered cell.
CacheKeyLastCell(abs_positions) ==
    <<abs_positions[Len(abs_positions)].x, abs_positions[Len(abs_positions)].y>>

\* `let first_pos = abs_positions[0]; let key = (first_pos.x, first_pos.y);`
CacheKey(abs_positions) == <<abs_positions[1].x, abs_positions[1].y>>

\* The element of a one-element set.  {e(v) : v \in {x}} computes x once, as
\* a `let` of the source does.
The(S) == CHOOSE v \in S : TRUE

\* BatchScorer::score_single: [score, context], and in `call` the locals
\* flood_fill and density, the key and whether each closure was run.
score_single(ctx, placement, gs) ==
    LET base_expansion == F32(placement.cells_added) * 10
        abs_positions == placement_absolute_positions(placement)
        weak_positions == detect_weak_positions(placement, gs)
        edge_control == analyze_edge_control(placement, gs.grid)
    IN  The({[score |-> base_expansion + Times(F32(ff.value), 15, 10)
                          + Times(weak_positions, 2, 1)
                          + Times(F32(dn.value), 12, 10) + Times(edge_control, 5, 10),
              context |-> [flood_fill_cache |-> ff.cache, density_cache |-> dn.cache],
              call |-> [key |-> IF abs_positions # <<>> THEN Some(CacheKey(abs_positions))
                                ELSE None,
                        flood_fill |-> Times(F32(ff.value), 15, 10),
                        density |-> Times(F32(dn.value), 12, 10),
                        flood_fill_invoked |-> ff.invoked,
                        density_invoked |-> dn.invoked]] :
               ff \in {IF abs_positions # <<>>
                       THEN CacheGetOrCompute(ctx.flood_fill_cache, CacheKey(abs_positions),
                                              AsUsize(analyze_flood_fill(placement, gs)))
                       ELSE [value |-> 0, invoked |-> FALSE, cache |-> ctx.flood_fill_cache]},
               dn \in {IF abs_positions # <<>>
                       THEN CacheGetOrCompute(ctx.density_cache, CacheKey(abs_positions),
                                              AsUsize(analyze_density(placement, gs)))
                       ELSE [value |-> 0, invoked |-> FALSE, cache |-> ctx.density_cache]}})

\* One element of the map over the candidates: st = [scored, context, calls],
\* scored a sequence of <<placement, score>> and calls the score_single calls
\* in order.
ScoreAllStep(placement, gs, st) ==
    The({[scored |-> Append(st.scored, <<placement, r.score>>),
          context |-> r.context,
          calls |-> Append(st.calls, r.call)] :
           r \in {score_single(st.context, placement, gs)}})

\* The map over the candidates, threading the scorer's context.
RECURSIVE ScoreAllFrom(_, _, _, _)
ScoreAllFrom(placements, gs, i, st) ==
    IF i > Len(placements) THEN st
    ELSE ScoreAllFrom(placements, gs, i + 1,
                      The({ScoreAllStep(placements[i], gs, s) : s \in {st}}))

\* A pass that does not reset the context it starts from.
score_all_no_reset(ctx, placements, gs) ==
    ScoreAllFrom(placements, gs, 1, [scored |-> <<>>, context |-> ctx, calls |-> <<>>])

score_all(ctx, placements, gs) ==
    ScoreAllFrom(placements, gs, 1,
                 [scored |-> <<>>, context |-> ContextReset(ctx), calls |-> <<>>])

select_best_placement_optimized(placements, gs) ==
    IF placements = <<>> THEN None
    ELSE The({MaxBy(placements, [a \in 1..Len(scored) |-> [b \in 1..Len(scored) |->
                                    scored[a][2] > scored[b][2]]]) :
                 scored \in {score_all(NewScoringContext, placements, gs).scored}})

(***************************************************************************)
(* ai/mod.rs                                                               *)
(***************************************************************************)
AIStrategy ==
    {"GreedyExpansion", "Balanced", "Evaluator", "Default", "AggressiveExpansion",
     "Opportunistic", "Defensive", "StrategicBlocking", "AdvancedBalanced",
     "TerritorialControl"}

select_move(placements, gs, strategy) ==
    CASE strategy = "GreedyExpansion" -> greedy_expansion(placements)
      [] strategy = "Balanced" -> balanced(placements)
      [] strategy = "Evaluator" -> select_best_placement(placements, gs)
      [] strategy = "AggressiveExpansion" -> aggressive_expansion(placements, gs)
      [] strategy = "Opportunistic" -> opportunistic(placements, gs)
      [] strategy = "Defensive" -> defensive(placements, gs)
      [] strategy = "StrategicBlocking" -> strategic_blocking(placements, gs)
      [] strategy = "AdvancedBalanced" -> advanced_balanced(placements, gs)
      [] strategy = "TerritorialControl" -> territorial_control(placements, gs)
      [] strategy = "Default" -> advanced_balanced(placements, gs)

\* The selection the doc comment of select_move_default names ("default
\* strategy (Evaluator)").
select_move_default_evaluator(placements, gs) == select_move(placements, gs, "Evaluator")

select_move_default(placements, gs) == select_move(placements, gs, "Default")

\* impl Default for AIStrategy
AIStrategyDefault == "AdvancedBalanced"

(***************************************************************************)
(* output.rs, main.rs                                                      *)
(***************************************************************************)
Move(x, y) == [x |-> x, y |-> y]

MoveFallback == Move(0, 0)

\* A main that submits the coordinates of the selected placement swapped.
main_turn_swapped(gs) ==
    LET valid_placements == find_all_valid_placements(gs)
        selected == select_move_default(valid_placements, gs)
    IN  IF valid_placements = <<>>
        THEN [move |-> MoveFallback, branch |-> "no_valid_placements", selected |-> None]
        ELSE IF selected.tag = "Some"
        THEN [move |-> Move(selected.value.position.y, selected.value.position.x),
              branch |-> "selected", selected |-> selected]
        ELSE [move |-> MoveFallback, branch |-> "selection_failed", selected |-> None]

\* main, from the parsed game state to the submitted move: the move, the
\* branch of main that submitted it, and the selector's answer.
main_turn(gs) ==
    LET valid_placements == find_all_valid_placements(gs)
        selected == select_move_default(valid_placements, gs)
    IN  IF valid_placements = <<>>
        THEN [move |-> MoveFallback, branch |-> "no_valid_placements", selected |-> None]
        ELSE IF selected.tag = "Some"
        THEN [move |-> Move(selected.value.position.x, selected.value.position.y),
              branch |-> "selected", selected |-> selected]
        ELSE [move |-> MoveFallback, branch |-> "selection_failed", selected |-> None]

(***************************************************************************)
(* The snapshots a turn can start from: a GridW x GridH board holding at   *)
(* most MaxStones non-empty cells, a PieceW x PieceH piece mask, and the   *)
(* acting player.                                                          *)
(***************************************************************************)
BoardPositions == {Position(x, y) : x \in 0..(GridW - 1), y \in 0..(GridH - 1)}

StoneSets == {S \in SUBSET BoardPositions : Cardinality(S) <= MaxStones}

Stones == CellState \ {"Empty"}

GridOf(f) ==
    [width |-> GridW, height |-> GridH,
     cells |-> [y \in 0..(GridH - 1) |-> [x \in 0..(GridW - 1) |->
                  IF Position(x, y) \in DOMAIN f THEN f[Position(x, y)] ELSE "Empty"]]]

Grids == {GridOf(f) : f \in UNION {[S -> Stones] : S \in StoneSets}}

Shapes ==
    {[width |-> PieceW, height |-> PieceH, cells |-> c] :
        c \in [0..(PieceH - 1) -> [0..(PieceW - 1) -> BOOLEAN]]}

Players == {1, 2}

Anchors == {Position(x, y) : x \in 0..GridW, y \in 0..GridH}

GameStates ==
    {[player_number |-> p, grid |-> g, current_piece |-> s] :
        p \in Players, g \in Grids, s \in Shapes}

NoCall == [op |-> "none"]

Init ==
    /\ game_state \in GameStates
    /\ call = NoCall
    /\ ret = None
    /\ context = NewScoringContext
    /\ history = << >>

\* The program is single-threaded: a call is made when no call is pending,
\* and Return hands control back to the caller.
ValidatePlacement ==
    \E pos \in Anchors :
        /\ call = NoCall
        /\ call' = [op |-> "validate_placement", pos |-> pos]
        /\ ret' = validate_placement(game_state, pos)
        /\ UNCHANGED <<game_state, context, history>>

FindAllValidPlacements ==
    /\ call = NoCall
    /\ call' = [op |-> "find_all_valid_placements"]
    /\ ret' = find_all_valid_placements(game_state)
    /\ UNCHANGED <<game_state, context, history>>

Return ==
    /\ call # NoCall
    /\ call' = NoCall
    /\ ret' = None
    /\ UNCHANGED <<game_state, context, history>>

Next == ValidatePlacement \/ FindAllValidPlacements \/ Return

Spec == Init /\ [][Next]_vars

(***************************************************************************)
(* Placement validator: what the claims speak about, stated over sets and  *)
(* independently of the scan order of the code.                            *)
(***************************************************************************)
FilledCells(shape) ==
    {p \in {Position(x, y) : x \in 0..(shape.width - 1), y \in 0..(shape.height - 1)} :
        shape.cells[p.y][p.x]}

CoveredCells(gs, anchor) ==
    {Position(anchor.x + p.x, anchor.y + p.y) : p \in FilledCells(gs.current_piece)}

OnBoard(gs, c) == c.x \in 0..(gs.grid.width - 1) /\ c.y \in 0..(gs.grid.height - 1)

OwnStates(n) == IF n = 1 THEN {"Player1", "Player1Last"} ELSE {"Player2", "Player2Last"}

OpponentStates(n) == IF n = 1 THEN {"Player2", "Player2Last"} ELSE {"Player1", "Player1Last"}

CoveredIn(gs, anchor, states) ==
    {c \in CoveredCells(gs, anchor) : OnBoard(gs, c) /\ gs.grid.cells[c.y][c.x] \in states}

AllOnBoard(gs, anchor) == \A c \in CoveredCells(gs, anchor) : OnBoard(gs, c)

Validated == call.op = "validate_placement"

NonEmptyPiece == FilledCells(game_state.current_piece) # {}

\* C1: for a non-empty piece, validate_placement is Ok exactly when every
\* filled cell is on the board, none lies on an opponent cell (either
\* opponent state) and exactly one lies on an own cell (either own state);
\* an Ok result carries the anchor, territory_touches = 1 and
\* cells_added = (number of filled cells) - 1.
C1_ValidateOkIff ==
    (Validated /\ NonEmptyPiece) =>
        LET legal ==
                /\ AllOnBoard(game_state, call.pos)
                /\ CoveredIn(game_state, call.pos,
                             OpponentStates(game_state.player_number)) = {}
                /\ Cardinality(CoveredIn(game_state, call.pos,
                                         OwnStates(game_state.player_number))) = 1
        IN  /\ (ret.tag = "Ok") <=> legal
            /\ ret.tag = "Ok" =>
                  /\ ret.value.position = call.pos
                  /\ ret.value.shape = game_state.current_piece
                  /\ ret.value.territory_touches = 1
                  /\ ret.value.cells_added =
                        Cardinality(FilledCells(game_state.current_piece)) - 1

C1_Witness ==
    /\ Validated
    /\ ret.tag = "Ok"
    /\ ret.value.cells_added >= 2
    /\ game_state.player_number = 2
    /\ CoveredIn(game_state, call.pos, {"Player2Last"}) # {}

\* C2: a piece with no filled cell is rejected with EmptyShape at every
\* anchor, on or off the board, whatever the board holds.
C2_EmptyShapeFirst ==
    (Validated /\ ~NonEmptyPiece) => ret = Err("EmptyShape")

C2_Witness ==
    /\ Validated
    /\ ~NonEmptyPiece
    /\ ~OnBoard(game_state, call.pos)
    /\ game_state.grid.cells[0][0] # "Empty"
    /\ ret = Err("EmptyShape")

\* C3: for a non-empty piece, a filled cell off the board gives OutOfBounds
\* whatever the other covered cells hold.
C3_OutOfBoundsAlways ==
    (Validated /\ NonEmptyPiece /\ ~AllOnBoard(game_state, call.pos)) =>
        ret = Err("OutOfBounds")

\* C4: for a non-empty piece lying wholly on the board, covering an opponent
\* cell (either opponent state) gives CollisionWithOpponent, however many own
\* cells are covered.
C4_OpponentCollision ==
    (/\ Validated
     /\ NonEmptyPiece
     /\ AllOnBoard(game_state, call.pos)
     /\ CoveredIn(game_state, call.pos, OpponentStates(game_state.player_number)) # {})
        => ret = Err("CollisionWithOpponent")

C4_Witness ==
    /\ Validated
    /\ AllOnBoard(game_state, call.pos)
    /\ CoveredIn(game_state, call.pos, OpponentStates(game_state.player_number)) # {}
    /\ Cardinality(CoveredIn(game_state, call.pos,
                             OwnStates(game_state.player_number))) >= 2
    /\ ret = Err("CollisionWithOpponent")

\* C5: for a non-empty piece lying wholly on the board and covering no
\* opponent cell, no own cell covered gives NoTerritoryContact and two or
\* more own cells covered give MultipleContacts.
C5_ContactCount ==
    (/\ Validated
     /\ NonEmptyPiece
     /\ AllOnBoard(game_state, call.pos)
     /\ CoveredIn(game_state, call.pos, OpponentStates(game_state.player_number)) = {})
        => LET own == Cardinality(CoveredIn(game_state, call.pos,
                                            OwnStates(game_state.player_number)))
           IN  /\ own = 0 => ret = Err("NoTerritoryContact")
               /\ own >= 2 => ret = Err("MultipleContacts")

C5_Witness ==
    /\ Validated
    /\ AllOnBoard(game_state, call.pos)
    /\ Cardinality(CoveredIn(game_state, call.pos,
                             OwnStates(game_state.player_number))) = 3
    /\ ret = Err("MultipleContacts")

\* The rank of an anchor in the row-major scan (y outer, x inner).
RowMajor(gs, pos) == pos.y * gs.grid.width + pos.x

\* C6: find_all_valid_placements returns exactly the Ok results of
\* validate_placement at the anchors of the board, each once, in strictly
\* increasing row-major order, and each has territory_touches = 1.
C6_FindAllExact ==
    call.op = "find_all_valid_placements" =>
        LET okAnchors == {a \in BoardPositions : validate_placement(game_state, a).tag = "Ok"}
        IN  /\ {ret[i].position : i \in 1..Len(ret)} = okAnchors
            /\ Len(ret) = Cardinality(okAnchors)
            /\ \A i \in 1..Len(ret) :
                  /\ ret[i] = validate_placement(game_state, ret[i].position).value
                  /\ ret[i].territory_touches = 1
            /\ \A i \in 1..(Len(ret) - 1) :
                  RowMajor(game_state, ret[i]. position) < RowMajor(game_state, ret[i + 1].position)

C6_Witness ==
    /\ call.op = "find_all_valid_placements"
    /\ Len(ret) >= 3
    /\ ret[1].position.y < ret[Len(ret)].position.y
    /\ \E a \in BoardPositions : validate_placement(game_state, a).tag = "Err"

(***************************************************************************)
(* Selection.  The candidate lists handed to a selector: up to             *)
(* MaxCandidates placements of the current piece at a corner or an edge    *)
(* anchor, with the metrics of the tie of test_balanced_strategy           *)
(* (cells_added 3 / territory_touches 1, and 2 / 3).                       *)
(***************************************************************************)
SelectGrids ==
    {GridOf(f) : f \in UNION {[S -> Stones] :
                                 S \in {T \in StoneSets : Cardinality(T) <= SelectStones}}}

\* The pieces whose filled cells are the origin and any cells right of it.
SelectShapes ==
    {s \in Shapes : /\ s.cells[0][0]
                    /\ \A y \in 1..(PieceH - 1) : \A x \in 0..(PieceW - 1) : ~s.cells[y][x]}

SelectGameStates ==
    {[player_number |-> p, grid |-> g, current_piece |-> s] :
        p \in Players, g \in SelectGrids, s \in SelectShapes}

CandidatePositions == {Position(0, 0), Position(GridW - 2, GridH - 1)}

CandidateMetrics == {<<3, 1>>, <<2, 3>>}

CandidatePlacements(gs) ==
    {[position |-> pos, shape |-> gs.current_piece,
      cells_added |-> m[1], territory_touches |-> m[2]] :
        pos \in CandidatePositions, m \in CandidateMetrics}

CandidateLists(gs) ==
    UNION {[1..n -> CandidatePlacements(gs)] : n \in 0..MaxCandidates}

InitSelect ==
    /\ game_state \in SelectGameStates
    /\ call = NoCall
    /\ ret = None
    /\ context = NewScoringContext
    /\ history = << >>

SelectMove ==
    \E strategy \in AIStrategy : \E placements \in CandidateLists(game_state) :
        /\ call = NoCall
        /\ call' = [op |-> "select_move", strategy |-> strategy, placements |-> placements]
        /\ ret' = select_move(placements, game_state, strategy)
        /\ UNCHANGED <<game_state, context, history>>

Conservative ==
    \E placements \in CandidateLists(game_state) :
        /\ call = NoCall
        /\ call' = [op |-> "conservative", placements |-> placements]
        /\ ret' = conservative(placements)
        /\ UNCHANGED <<game_state, context, history>>

SelectBestPlacementOptimized ==
    \E placements \in CandidateLists(game_state) :
        /\ call = NoCall
        /\ call' = [op |-> "select_best_placement_optimized", placements |-> placements]
        /\ ret' = select_best_placement_optimized(placements, game_state)
        /\ UNCHANGED <<game_state, context, history>>

SelectMoveDefault ==
    \E placements \in CandidateLists(game_state) :
        /\ call = NoCall
        /\ call' = [op |-> "select_move_default", placements |-> placements]
        /\ ret' = select_move_default(placements, game_state)
        /\ UNCHANGED <<game_state, context, history>>

NextSelect ==
    SelectMove \/ SelectMoveDefault \/ Conservative \/ SelectBestPlacementOptimized \/ Return

SpecSelect == InitSelect /\ [][NextSelect]_vars

(***************************************************************************)
(* Selection: what the claims speak about.  The scores of the strategy     *)
(* table, times 10 so that every weight is an integer.                     *)
(***************************************************************************)
SelectOps ==
    {"select_move", "select_move_default", "conservative", "select_best_placement_optimized"}

Selected == call.op \in SelectOps

CalledStrategy ==
    IF call.op = "select_move" THEN call.strategy
    ELSE IF call.op = "select_move_default" THEN "Default"
    ELSE IF call.op = "conservative" THEN "Conservative"
    ELSE "Optimized"

NamedStrategies ==
    {"GreedyExpansion", "Balanced", "Conservative", "AggressiveExpansion", "Opportunistic",
     "Defensive", "StrategicBlocking", "AdvancedBalanced", "TerritorialControl"}

TableScore(strategy, p, gs) ==
    LET c == F32(p.cells_added)
        t == F32(p.territory_touches)
        ff == analyze_flood_fill(p, gs)
        weak == detect_weak_positions(p, gs)
        dens == analyze_density(p, gs)
        edge == analyze_edge_control(p, gs.grid)
        d == manhattan_distance(p.position,
                                Position(gs.grid.width \div 2, gs.grid.height \div 2))
    IN  CASE strategy = "GreedyExpansion" -> <<10 * c, 0>>
          [] strategy = "Balanced" -> <<20 * c + 10 * t, 0>>
          [] strategy = "Conservative" -> <<t, c>>
          [] strategy = "AggressiveExpansion" -> <<100 * c + 20 * ff, 0>>
          [] strategy = "Opportunistic" -> <<25 * weak + 50 * c, 0>>
          [] strategy = "Defensive" -> <<20 * dens + 20 * t + 15 * edge, 0>>
          [] strategy = "StrategicBlocking" -> <<18 * weak + 30 * t + 30 * c, 0>>
          [] strategy \in {"AdvancedBalanced", "Default"} ->
                <<100 * c + 15 * ff + 20 * weak + 12 * dens + 5 * edge, 0>>
          [] strategy = "TerritorialControl" ->
                <<80 * c + 15 * ff + 15 * t + 8 * edge, 0>>
          [] strategy = "Evaluator" ->
                <<100 * c + (IF d < 15 THEN 5 * F32(15 - d) ELSE 0) + 10 * t, 0>>

\* The scores of the candidates of a list, in the order of the list.  A score
\* is a pair compared first on its first component: Conservative ranks by
\* territory_touches and then by cells_added, the others by one number.
RECURSIVE TableScoresFrom(_, _, _, _, _)
TableScoresFrom(strategy, placements, gs, i, acc) ==
    IF i > Len(placements) THEN acc
    ELSE TableScoresFrom(strategy, placements, gs, i + 1,
                         Append(acc, TableScore(strategy, placements[i], gs)))

TableScores(strategy, placements, gs) == TableScoresFrom(strategy, placements, gs, 1, <<>>)

\* Score a is strictly higher than score b.
Higher(a, b) == a[1] > b[1] \/ (a[1] = b[1] /\ a[2] > b[2])

\* The places in the list of the candidates no candidate beats.
MaximalPlaces(strategy, placements, gs) ==
    LET sc == TableScores(strategy, placements, gs)
    IN  {i \in 1..Len(placements) : \A j \in 1..Len(placements) : ~Higher(sc[j], sc[i])}

SetMax(S) == CHOOSE m \in S : \A n \in S : n <= m

\* C7: every selector answers None for an empty candidate list.
C7_EmptyGivesNone ==
    (Selected /\ call.placements = <<>>) => ret = None

C7_Witness ==
    /\ call.op = "select_move"
    /\ call.strategy = "Default"
    /\ call.placements = <<>>
    /\ ret = None

\* C8: under each of the nine named strategies, of the candidates that share
\* the highest score the one last in the list is returned.
C8_LastOfTiedWins ==
    (Selected /\ CalledStrategy \in NamedStrategies /\ call.placements # <<>>) =>
        ret = Some(call.placements[
                     SetMax(MaximalPlaces(CalledStrategy, call.placements, game_state))])

\* Balanced on [A(3, 1), B(2, 3)], both scoring 7, returns B.
C8_Witness ==
    /\ call.op = "select_move"
    /\ call.strategy = "Balanced"
    /\ Len(call.placements) = 2
    /\ call.placements[1].cells_added = 3 /\ call.placements[1].territory_touches = 1
    /\ call.placements[2].cells_added = 2 /\ call.placements[2].territory_touches = 3
    /\ ret = Some(call.placements[2])

\* C9: for a non-empty list select_move answers Some(p), p a candidate of the
\* list that no candidate of the list beats under the strategy's formula.
C9_ArgMax ==
    (call.op = "select_move" /\ call.placements # <<>>) =>
        /\ ret.tag = "Some"
        /\ \E i \in MaximalPlaces(call.strategy, call.placements, game_state) :
              ret.value = call.placements[i]

C9_Witness ==
    /\ call.op = "select_move"
    /\ call.strategy = "AdvancedBalanced"
    /\ Len(call.placements) = 3
    /\ ret = Some(call.placements[2])
    /\ MaximalPlaces("AdvancedBalanced", call.placements, game_state) = {2}
    /\ call.placements[1].cells_added = call.placements[2].cells_added

(***************************************************************************)
(* Flood fill.  flood_fill_reachable is called on the board with up to     *)
(* MaxSeeds seed positions, on or off the board, repeated or not;          *)
(* analyze_flood_fill with a placement of the current piece at any anchor. *)
(***************************************************************************)
FloodGrids ==
    {GridOf(f) : f \in UNION {[S -> Stones] :
                                 S \in {T \in StoneSets : Cardinality(T) <= FloodStones}}}

FloodGameStates ==
    {[player_number |-> p, grid |-> g, current_piece |-> s] :
        p \in Players, g \in FloodGrids, s \in SelectShapes}

SeedLists == UNION {[1..n -> Anchors] : n \in 0..MaxSeeds}

InitFlood ==
    /\ game_state \in FloodGameStates
    /\ call = NoCall
    /\ ret = None
    /\ context = NewScoringContext
    /\ history = << >>

FloodFillReachable ==
    \E start_positions \in SeedLists :
        /\ call = NoCall
        /\ call' = [op |-> "flood_fill_reachable", start_positions |-> start_positions]
        /\ ret' = flood_fill_reachable(game_state.grid, start_positions)
        /\ UNCHANGED <<game_state, context, history>>

AnalyzeFloodFill ==
    \E pos \in Anchors :
        LET placement == [position |-> pos, shape |-> game_state.current_piece,
                          cells_added |-> 1, territory_touches |-> 1]
            r == analyze_flood_fill_run(placement, game_state)
        IN  /\ call = NoCall
            /\ call' = [op |-> "analyze_flood_fill", placement |-> placement]
            /\ ret' = r.value
            /\ game_state' = r.game_state
            /\ UNCHANGED <<context, history>>

AdvancedScore ==
    \E pos \in Anchors :
        LET placement == [position |-> pos, shape |-> game_state.current_piece,
                          cells_added |-> 1, territory_touches |-> 1]
            r == advanced_score_run(placement, game_state)
        IN  /\ call = NoCall
            /\ call' = [op |-> "advanced_score", placement |-> placement]
            /\ ret' = r.value
            /\ game_state' = r.game_state
            /\ UNCHANGED <<context, history>>

NextFlood == FloodFillReachable \/ AnalyzeFloodFill \/ AdvancedScore \/ Return

SpecFlood == InitFlood /\ [][NextFlood]_vars

(***************************************************************************)
(* Flood fill: what the claims speak about.  Reachability over the cells   *)
(* of the board, with no queue and no wrapping arithmetic.                 *)
(***************************************************************************)
CellsOf(grid) == {Position(x, y) : x \in 0..(grid.width - 1), y \in 0..(grid.height - 1)}

Adjacent(a, b) ==
    \/ a.x = b.x /\ (a.y = b.y + 1 \/ b.y = a.y + 1)
    \/ a.y = b.y /\ (a.x = b.x + 1 \/ b.x = a.x + 1)

\* The least set holding S and every Empty cell next to one of its cells.
RECURSIVE EmptyClosure(_, _)
EmptyClosure(grid, S) ==
    LET more == {c \in CellsOf(grid) \ S :
                    /\ grid.cells[c.y][c.x] = "Empty"
                    /\ \E s \in S : Adjacent(s, c)}
    IN  IF more = {} THEN S ELSE EmptyClosure(grid, S \cup more)

\* The Empty cells, other than the seeds, at the end of a path from a seed on
\* the board whose cells after the seed are all Empty.
ReachableEmpty(grid, seeds) ==
    LET onBoard == seeds \cap CellsOf(grid)
    IN  EmptyClosure(grid, onBoard) \ onBoard

\* The board with the covered cells that lie on it marked Player1Last.
MarkedGrid(grid, covered) ==
    [grid EXCEPT !.cells = [y \in 0..(grid.height - 1) |-> [x \in 0..(grid.width - 1) |->
        IF Position(x, y) \in covered THEN "Player1Last" ELSE grid.cells[y][x]]]]

SeqRange(q) == {q[i] : i \in 1..Len(q)}

\* C10: flood_fill_reachable counts the Empty cells, seeds left out, that a
\* seed on the board reaches along Empty cells, each once; and
\* analyze_flood_fill is 2.5 times that count, taken from the cells the
\* placement covers on the board with those cells marked.
C10_FloodCount ==
    /\ call.op = "flood_fill_reachable" =>
          ret = Cardinality(ReachableEmpty(game_state.grid, SeqRange(call.start_positions)))
    /\ call.op = "analyze_flood_fill" =>
          LET covered == CoveredCells(game_state, call.placement.position)
              n == Cardinality(ReachableEmpty(MarkedGrid(game_state.grid, covered), covered))
          IN  2 * ret = 5 * n * ScoreUnit

\* A traversal that stops at an own cell: an Empty cell behind it stays
\* uncounted while other cells are counted, with one seed off the board.
C10_Witness ==
    /\ call.op = "flood_fill_reachable"
    /\ ret >= 1
    /\ \E s \in SeqRange(call.start_positions) : s \notin CellsOf(game_state.grid)
    /\ LET seeds == SeqRange(call.start_positions)
           reached == EmptyClosure(game_state.grid, seeds \cap CellsOf(game_state.grid))
       IN  \E own \in CellsOf(game_state.grid) \ reached :
              /\ game_state.grid.cells[own.y][own.x] \in {"Player1", "Player1Last"}
              /\ \E r \in reached : Adjacent(r, own)
              /\ \E e \in CellsOf(game_state.grid) \ reached :
                    /\ game_state.grid.cells[e.y][e.x] = "Empty"
                    /\ Adjacent(own, e)

\* The placements of any piece of the model at any anchor.
AnyPlacements ==
    {[position |-> pos, shape |-> s, cells_added |-> 1, territory_touches |-> 1] :
        pos \in Anchors, s \in Shapes}

\* C11: on one board the reachable count does not go down when the seed set
\* grows, and a placement covering a superset of another placement's cells has
\* an analyze_flood_fill value at least as large.
C11_FloodMonotone ==
    /\ call.op = "flood_fill_reachable" =>
          \A s1 \in SeedLists :
              SeqRange(s1) \subseteq SeqRange(call.start_positions) =>
                  flood_fill_reachable(game_state.grid, s1) <= ret
    /\ call.op = "analyze_flood_fill" =>
          \A q \in AnyPlacements :
              SeqRange(placement_absolute_positions(q))
                    \subseteq SeqRange(placement_absolute_positions(call.placement)) =>
                  analyze_flood_fill(q, game_state) <= ret

(***************************************************************************)
(* Heuristics.  detect_weak_positions, analyze_density and                 *)
(* analyze_edge_control are called with a placement of the current piece   *)
(* at any anchor, on a HeurW x HeurH board (one with an interior cell)     *)
(* that holds at most HeurStones non-empty cells, or whose cell (1, 1) is  *)
(* enclosed by four non-empty cells.                                       *)
(***************************************************************************)
HeurW == 3
HeurH == 3
HeurStones == 3

HeurPositions == {Position(x, y) : x \in 0..(HeurW - 1), y \in 0..(HeurH - 1)}

HeurGridOf(f) ==
    [width |-> HeurW, height |-> HeurH,
     cells |-> [y \in 0..(HeurH - 1) |-> [x \in 0..(HeurW - 1) |->
                  IF Position(x, y) \in DOMAIN f THEN f[Position(x, y)] ELSE "Empty"]]]

EnclosingCells == {Position(1, 0), Position(0, 1), Position(2, 1), Position(1, 2)}

HeurGrids ==
    {HeurGridOf(f) :
        f \in UNION {[S -> Stones] :
                        S \in {T \in SUBSET HeurPositions : Cardinality(T) <= HeurStones}
                                \cup {EnclosingCells}}}

HeurGameStates ==
    {[player_number |-> p, grid |-> g, current_piece |-> s] :
        p \in Players, g \in HeurGrids, s \in SelectShapes}

HeurAnchors == {Position(x, y) : x \in 0..HeurW, y \in 0..HeurH}

HeurPlacement(pos) ==
    [position |-> pos, shape |-> game_state.current_piece,
     cells_added |-> 1, territory_touches |-> 1]

InitHeur ==
    /\ game_state \in HeurGameStates
    /\ call = NoCall
    /\ ret = None
    /\ context = NewScoringContext
    /\ history = << >>

DetectWeakPositions ==
    \E pos \in HeurAnchors :
        /\ call = NoCall
        /\ call' = [op |-> "detect_weak_positions", placement |-> HeurPlacement(pos)]
        /\ ret' = detect_weak_positions(HeurPlacement(pos), game_state)
        /\ UNCHANGED <<game_state, context, history>>

AnalyzeDensity ==
    \E pos \in HeurAnchors :
        /\ call = NoCall
        /\ call' = [op |-> "analyze_density", placement |-> HeurPlacement(pos)]
        /\ ret' = analyze_density(HeurPlacement(pos), game_state)
        /\ UNCHANGED <<game_state, context, history>>

AnalyzeEdgeControl ==
    \E pos \in HeurAnchors :
        /\ call = NoCall
        /\ call' = [op |-> "analyze_edge_control", placement |-> HeurPlacement(pos)]
        /\ ret' = analyze_edge_control(HeurPlacement(pos), game_state.grid)
        /\ UNCHANGED <<game_state, context, history>>

NextHeur == DetectWeakPositions \/ AnalyzeDensity \/ AnalyzeEdgeControl \/ Return

SpecHeur == InitHeur /\ [][NextHeur]_vars

(***************************************************************************)
(* Heuristics: what the claims speak about, stated over the set of covered *)
(* cells of the board.                                                     *)
(***************************************************************************)
\* The cells of the board the placement of the call covers.
CoveredOnBoard ==
    {c \in CoveredCells(game_state, call.placement.position) : OnBoard(game_state, c)}

\* The sum of f over a finite set; f is a function on a superset of S.
RECURSIVE SumOver(_, _)
SumOver(S, f) ==
    IF S = {} THEN 0
    ELSE LET c == CHOOSE c \in S : TRUE IN f[c] + SumOver(S \ {c}, f)

\* The cells of the board next to c that are in one of the states.
NeighboursIn(gs, c, states) ==
    {n \in CellsOf(gs.grid) : Adjacent(n, c) /\ gs.grid.cells[n.y][n.x] \in states}

\* 3.0 under two opponent neighbours, 1.5 for two or three, 0 for four.
WeakBonus(n) == IF n < 2 THEN 3 * ScoreUnit ELSE IF n < 4 THEN (3 * ScoreUnit) \div 2 ELSE 0

\* C12: detect_weak_positions is the sum over the covered cells of the board
\* of the bonus for the number of neighbours owned by the opponent of the
\* acting player, whether player 1 or player 2 acts.
C12_WeakPositions ==
    call.op = "detect_weak_positions" =>
        ret = SumOver(CoveredOnBoard,
                      [c \in CoveredOnBoard |->
                          WeakBonus(Cardinality(NeighboursIn(game_state, c,
                                        OpponentStates(game_state.player_number))))])

\* The cells of the board at Manhattan distance 1 or 2 of c that are in one
\* of the states.
DiamondIn(gs, c, states) ==
    {n \in CellsOf(gs.grid) :
        /\ manhattan_distance(n, c) \in 1..2
        /\ gs.grid.cells[n.y][n.x] \in states}

\* C13: analyze_density is 0.8 times the average, over the covered cells of
\* the board, of the number of own cells at Manhattan distance 1 or 2, and 0
\* when no covered cell is on the board.
C13_DensityDiamond ==
    call.op = "analyze_density" =>
        LET k == Cardinality(CoveredOnBoard)
            total == SumOver(CoveredOnBoard,
                             [c \in CoveredOnBoard |->
                                 Cardinality(DiamondIn(game_state, c,
                                                 OwnStates(game_state.player_number)))])
        IN  IF k = 0 THEN ret = 0 ELSE 10 * k * ret = 8 * ScoreUnit * total

OnXBorder(gs, c) == c.x = 0 \/ c.x = gs.grid.width - 1

OnYBorder(gs, c) == c.y = 0 \/ c.y = gs.grid.height - 1

\* 2.0 for a corner, 1.0 for a border cell that is no corner, 0 inside.
EdgeBonus(gs, c) ==
    IF OnXBorder(gs, c) /\ OnYBorder(gs, c) THEN 2 * ScoreUnit
    ELSE IF OnXBorder(gs, c) \/ OnYBorder(gs, c) THEN ScoreUnit
    ELSE 0

\* The placement of a piece with one filled cell, on the cell c.
SingleCellPlacement(c) ==
    [position |-> c,
     shape |-> [width |-> 1, height |-> 1, cells |-> [y \in {0} |-> [x \in {0} |-> TRUE]]],
     cells_added |-> 1, territory_touches |-> 1]

\* C14: analyze_edge_control is the sum over the covered cells of the board of
\* 2.0 per corner, 1.0 per other border cell and 0 per interior cell; so a
\* one-cell placement on a corner scores more than one on another border
\* cell, which scores more than one on an interior cell.
C14_EdgeControl ==
    call.op = "analyze_edge_control" =>
        /\ ret = SumOver(CoveredOnBoard, [c \in CoveredOnBoard |-> EdgeBonus(game_state, c)])
        /\ LET c == call.placement.position
           IN  c \in CellsOf(game_state.grid) =>
                   \A d \in CellsOf(game_state.grid) :
                       EdgeBonus(game_state, c) > EdgeBonus(game_state, d) =>
                           analyze_edge_control(SingleCellPlacement(c), game_state.grid)
                               > analyze_edge_control(SingleCellPlacement(d), game_state.grid)

\* A two-cell piece on an interior cell and the border cell right of it.
C14_Witness ==
    /\ call.op = "analyze_edge_control"
    /\ CoveredOnBoard = {Position(1, 1), Position(2, 1)}
    /\ game_state.grid.width = 3 /\ game_state.grid.height = 3
    /\ ret = ScoreUnit
    /\ analyze_edge_control(SingleCellPlacement(Position(0, 0)), game_state.grid)
          > analyze_edge_control(SingleCellPlacement(Position(2, 1)), game_state.grid)
    /\ analyze_edge_control(SingleCellPlacement(Position(2, 1)), game_state.grid)
          > analyze_edge_control(SingleCellPlacement(Position(1, 1)), game_state.grid)

(***************************************************************************)
(* Selection: the default strategy.                                        *)
(***************************************************************************)
DefaultOps ==
    \/ call.op = "select_move_default"
    \/ call.op = "select_move" /\ call.strategy \in {"Default", "AdvancedBalanced"}

MaxCacheKey == 1
MaxCacheValue == 1
MaxCacheOps == 4

CacheNames == {"flood_fill_cache", "density_cache"}

CacheKeys == {<<x, 0>> : x \in 0..MaxCacheKey}

CacheValues == 0..MaxCacheValue

\* The caches do not read the snapshot: one empty board and a one-cell piece.
CacheGameStates ==
    {[player_number |-> 1, grid |-> GridOf(<< >>), current_piece |-> s] :
        s \in {t \in SelectShapes : FilledCells(t) = {Position(0, 0)}}}

InitCache ==
    /\ game_state \in CacheGameStates
    /\ call = NoCall
    /\ ret = None
    /\ context = NewScoringContext
    /\ history = << >>

GetOrCompute ==
    \E name \in CacheNames : \E key \in CacheKeys : \E computed \in CacheValues :
        LET c == [op |-> "get_or_compute", cache |-> name, key |-> key, computed |-> computed]
            r == CacheGetOrCompute(context[name], key, computed)
        IN  /\ call = NoCall
            /\ Len(history) < MaxCacheOps
            /\ call' = c
            /\ ret' = [value |-> r.value, invoked |-> r.invoked]
            /\ context' = [context EXCEPT ![name] = r.cache]
            /\ history' = Append(history, c)
            /\ UNCHANGED game_state

Clear ==
    \E name \in CacheNames :
        LET c == [op |-> "clear", cache |-> name]
        IN  /\ call = NoCall
            /\ Len(history) < MaxCacheOps
            /\ call' = c
            /\ ret' = None
            /\ context' = [context EXCEPT ![name] = CacheClear(context[name])]
            /\ history' = Append(history, c)
            /\ UNCHANGED game_state

Reset ==
    /\ call = NoCall
    /\ Len(history) < MaxCacheOps
    /\ call' = [op |-> "reset"]
    /\ ret' = None
    /\ context' = ContextReset(context)
    /\ history' = Append(history, [op |-> "reset"])
    /\ UNCHANGED game_state

NextCache == GetOrCompute \/ Clear \/ Reset \/ Return

SpecCache == InitCache /\ [][NextCache]_vars

(***************************************************************************)
(* The caches: what the claims speak about, read off the log.              *)
(***************************************************************************)
\* The log entry at place i empties the cache `name`.
Empties(i, name) ==
    \/ history[i].op = "reset"
    \/ history[i].op = "clear" /\ history[i].cache = name

\* The places of the log, before its last entry, of the get_or_compute calls
\* on cache `name` with key `key` that no clear of the cache follows.
EarlierGets(name, key) ==
    {i \in 1..(Len(history) - 1) :
        /\ history[i].op = "get_or_compute"
        /\ history[i].cache = name
        /\ history[i].key = key
        /\ \A j \in (i + 1)..(Len(history) - 1) : ~Empties(j, name)}

SetMin(S) == CHOOSE m \in S : \A n \in S : m <= n

\* C17: get_or_compute runs its closure only for a key not inserted since the
\* cache was last cleared (or created) and then returns the closure's value;
\* otherwise it returns what the first get_or_compute on the key since then
\* stored, without running the closure.  After clear or reset the cache holds
\* no entry.
C17_CacheContract ==
    /\ call.op = "get_or_compute" =>
          LET earlier == EarlierGets(call.cache, call.key)
          IN  IF earlier = {}
              THEN ret.invoked /\ ret.value = call.computed
              ELSE ~ret.invoked /\ ret.value = history[SetMin(earlier)].computed
    /\ call.op = "clear" => CacheEntries(context[call.cache]) = 0
    /\ call.op = "reset" =>
          CacheEntries(context.flood_fill_cache) = 0 /\ CacheEntries(context.density_cache) = 0

\* The scenario of test_flood_fill_cache_hit followed by a clear: the second
\* query of a key with another closure returns the first value, and the query
\* after the clear runs its closure.
C17_Witness ==
    /\ Len(history) = 4
    /\ history[1].op = "get_or_compute" /\ history[2].op = "get_or_compute"
    /\ history[3].op = "clear" /\ history[4].op = "get_or_compute"
    /\ \A i \in {1, 2, 4} : history[i].cache = history[3].cache /\ history[i].key = history[1].key
    /\ history[2].computed # history[1].computed
    /\ history[4].computed # history[1].computed
    /\ call = history[4]
    /\ ret = [value |-> history[4].computed, invoked |-> TRUE]

(***************************************************************************)
(* The batch scorer.  One BatchScorer makes up to MaxPasses score_all      *)
(* passes, each on a snapshot and a candidate list of its own: a board     *)
(* holding at most BatchStones cells of Player1 or Player2, and up to      *)
(* BatchCandidates candidates.  history logs the arguments of the passes.  *)
(***************************************************************************)
BatchStones == 1
BatchCandidates == 2
MaxPasses == 2

BatchGrids ==
    {GridOf(f) : f \in UNION {[S -> {"Player1", "Player2"}] :
                                 S \in {T \in StoneSets : Cardinality(T) <= BatchStones}}}

BatchGameStates ==
    {[player_number |-> 1, grid |-> g, current_piece |-> s] :
        g \in BatchGrids, s \in SelectShapes}

\* The candidates: the current piece at a candidate anchor, with the metrics
\* validate_placement gives an Ok result.
BatchPlacements(gs) ==
    {[position |-> pos, shape |-> gs.current_piece,
      cells_added |-> Len(get_filled_positions(gs.current_piece)) - 1,
      territory_touches |-> 1] : pos \in CandidatePositions}

BatchLists(gs) == UNION {[1..n -> BatchPlacements(gs)] : n \in 0..BatchCandidates}

\* BatchScorer::new, before any snapshot is scored.
InitBatch ==
    /\ game_state \in CacheGameStates
    /\ call = NoCall
    /\ ret = None
    /\ context = NewScoringContext
    /\ history = << >>

ScoreAll ==
    \E gs \in BatchGameStates : \E placements \in BatchLists(gs) :
        LET r == score_all(context, placements, gs)
        IN  /\ call = NoCall
            /\ Len(history) < MaxPasses
            /\ game_state' = gs
            /\ call' = [op |-> "score_all", placements |-> placements]
            /\ ret' = r.scored
            /\ context' = r.context
            /\ history' = Append(history, [op |-> "score_all", game_state |-> gs,
                                           placements |-> placements])

NextBatch == ScoreAll \/ Return

SpecBatch == InitBatch /\ [][NextBatch]_vars

(***************************************************************************)
(* The batch scorer: what the claims speak about.                          *)
(***************************************************************************)
\* The cache key of a placement with a filled cell: its first covered cell.
FirstCellKey(p) ==
    LET a == placement_absolute_positions(p) IN <<a[1].x, a[1].y>>

PassKeys(placements) == {FirstCellKey(placements[i]) : i \in 1..Len(placements)}

\* C18: every score_all pass of a scorer returns the scores a newly created
\* BatchScorer returns for the same arguments, and leaves in the two caches
\* only entries of this pass, whatever the earlier passes scored.
C18_NoCrossPassStaleness ==
    call.op = "score_all" =>
        /\ ret = score_all(NewScoringContext, call.placements, game_state).scored
        /\ DOMAIN context.flood_fill_cache = PassKeys(call.placements)
        /\ DOMAIN context.density_cache = PassKeys(call.placements)

\* A second pass on another board, with a candidate whose cache key the first
\* pass filled with another flood-fill value.
C18_Witness ==
    /\ call.op = "score_all"
    /\ Len(history) = 2
    /\ history[1].game_state.grid # game_state.grid
    /\ \E i \in 1..Len(history[1].placements) : \E j \in 1..Len(call.placements) :
          /\ FirstCellKey(history[1].placements[i]) = FirstCellKey(call.placements[j])
          /\ AsUsize(analyze_flood_fill(history[1].placements[i], history[1].game_state))
                # AsUsize(analyze_flood_fill(call.placements[j], game_state))

(***************************************************************************)
(* Frame of the flood-fill analysis.                                       *)
(***************************************************************************)
\* C19: a call of analyze_flood_fill, or of the scorer advanced_score built
\* on it, leaves the snapshot as it found it: the grid, cell for cell, the
\* piece and the player; the covered cells are marked on the clone only.
C19_BoardNotMutated ==
    [][call'.op \in {"analyze_flood_fill", "advanced_score"} =>
          game_state' = game_state]_vars

\* A call whose placement covers an Empty cell of the board, which the marking
\* loop sets to Player1Last on the clone, and reaches Empty cells from it.
C19_Witness ==
    /\ call.op = "analyze_flood_fill"
    /\ ret > 0
    /\ \E c \in CoveredCells(game_state, call.placement.position) :
          /\ OnBoard(game_state, c)
          /\ game_state.grid.cells[c.y][c.x] = "Empty"

(***************************************************************************)
(* A turn, from the parsed snapshot to the submitted move.                 *)
(***************************************************************************)
InitTurn ==
    /\ game_state \in GameStates
    /\ call = NoCall
    /\ ret = None
    /\ context = NewScoringContext
    /\ history = << >>

Main ==
    /\ call = NoCall
    /\ call' = [op |-> "main"]
    /\ ret' = main_turn(game_state)
    /\ UNCHANGED <<game_state, context, history>>

NextTurn == Main \/ Return

SpecTurn == InitTurn /\ [][NextTurn]_vars

\* The anchors, on the board or one step off it, that validate.
ValidAnchors(gs) == {pos \in Anchors : validate_placement(gs, pos).tag = "Ok"}

\* C20: when some anchor validates, main submits the anchor of the placement
\* select_move_default chose among find_all_valid_placements, and that anchor
\* validates on the same snapshot; the fallback move is submitted only when
\* find_all_valid_placements is empty, which is when no anchor validates.
C20_EmittedMoveIsLegal ==
    call.op = "main" =>
        /\ ValidAnchors(game_state) # {} =>
              /\ ret.branch = "selected"
              /\ ret.selected = select_move_default(find_all_valid_placements(game_state),
                                                    game_state)
              /\ ret.selected.tag = "Some"
              /\ ret.move = Move(ret.selected.value.position.x, ret.selected.value.position.y)
              /\ Position(ret.move.x, ret.move.y) \in ValidAnchors(game_state)
        /\ ret.branch # "selected" =>
              /\ ret.move = MoveFallback
              /\ find_all_valid_placements(game_state) = << >>
              /\ ValidAnchors(game_state) = {}

\* A turn with several legal anchors where the chosen one is neither the
\* first found nor the anchor (0, 0) of the fallback move.
C20_Witness ==
    /\ call.op = "main"
    /\ ret.branch = "selected"
    /\ Cardinality(ValidAnchors(game_state)) >= 3
    /\ ret.selected.value # find_all_valid_placements(game_state)[1]
    /\ ret.move # MoveFallback
    /\ ret.move.x # ret.move.y

(***************************************************************************)
(* Placement validator: the unused error variant.                          *)
(***************************************************************************)
OwnCovered ==
    Cardinality(CoveredIn(game_state, call.pos, OwnStates(game_state.player_number)))

\* C21 as stated: validate_placement never answers CollisionWithSelf, and a
\* placement covering two or more own cells is always answered
\* MultipleContacts.
C21_AlwaysMultipleContacts ==
    Validated =>
        /\ ret # Err("CollisionWithSelf")
        /\ OwnCovered >= 2 => ret = Err("MultipleContacts")

\* C21, amended: validate_placement never answers CollisionWithSelf, and a
\* placement covering two or more own cells is answered MultipleContacts when
\* every filled cell is on the board and none lies on an opponent cell.
C21_NeverCollisionWithSelf ==
    Validated =>
        /\ ret # Err("CollisionWithSelf")
        /\ (/\ OwnCovered >= 2
            /\ AllOnBoard(game_state, call.pos)
            /\ CoveredIn(game_state, call.pos, OpponentStates(game_state.player_number)) = {})
              => ret = Err("MultipleContacts")

\* Two own cells covered, one in each own state, and nothing else wrong.
C21_Witness ==
    /\ Validated
    /\ AllOnBoard(game_state, call.pos)
    /\ CoveredIn(game_state, call.pos, OpponentStates(game_state.player_number)) = {}
    /\ OwnCovered = 2
    /\ \E a, b \in CoveredIn(game_state, call.pos, OwnStates(game_state.player_number)) :
          game_state.grid.cells[a.y][a.x] # game_state.grid.cells[b.y][b.x]
    /\ ret = Err("MultipleContacts")

(***************************************************************************)
(* The targeted enumeration.  find_placements_touching_territory is called *)
(* with up to MaxTerritory positions, repeated or not, on a board holding  *)
(* at most TouchStones non-empty cells.                                    *)
(***************************************************************************)
TouchStones == 2
MaxTerritory == 2

TouchGrids ==
    {GridOf(f) : f \in UNION {[S -> Stones] :
                                 S \in {T \in StoneSets : Cardinality(T) <= TouchStones}}}

TouchGameStates ==
    {[player_number |-> p, grid |-> g, current_piece |-> s] :
        p \in Players, g \in TouchGrids, s \in Shapes}

\* No position, one position on or just off the board, or up to MaxTerritory
\* positions of the board.
TerritoryLists ==
    {<< >>} \cup {<<t>> : t \in Anchors}
            \cup UNION {[1..n -> BoardPositions] : n \in 2..MaxTerritory}

InitTouch ==
    /\ game_state \in TouchGameStates
    /\ call = NoCall
    /\ ret = None
    /\ context = NewScoringContext
    /\ history = << >>

FindPlacementsTouchingTerritory ==
    \E territory_positions \in TerritoryLists :
        /\ call = NoCall
        /\ call' = [op |-> "find_placements_touching_territory",
                    territory_positions |-> territory_positions]
        /\ ret' = find_placements_touching_territory(game_state, territory_positions)
        /\ UNCHANGED <<game_state, context, history>>

NextTouch == FindPlacementsTouchingTerritory \/ Return

SpecTouch == InitTouch /\ [][NextTouch]_vars

(***************************************************************************)
(* The targeted enumeration: what the claims speak about.                  *)
(***************************************************************************)
Touched == call.op = "find_placements_touching_territory"

\* The anchors on the board that are a 4-neighbour of a position of T and
\* validate.
ValidNeighbourAnchors(gs, T) ==
    {a \in CellsOf(gs.grid) :
        /\ \E t \in T : Adjacent(a, t)
        /\ validate_placement(gs, a).tag = "Ok"}

\* Those whose placement covers a position of T next to the anchor.
CoveringNeighbourAnchors(gs, T) ==
    {a \in ValidNeighbourAnchors(gs, T) :
        \E t \in T : Adjacent(a, t) /\ t \in CoveredCells(gs, a)}

\* C22 as stated: the result holds, once each, the placements that validate at
\* an anchor on the board next to a position of T, and nothing else.
C22_EveryNeighbourAnchor ==
    Touched =>
        /\ SeqRange(ret) = {validate_placement(game_state, a).value :
                              a \in ValidNeighbourAnchors(game_state,
                                                          SeqRange(call.territory_positions))}
        /\ \A i, j \in 1..Len(ret) : ret[i].position = ret[j].position => i = j

\* C22, amended: the result holds, once each, the placements that validate at
\* an anchor on the board next to a position t of T and cover t, and nothing
\* else; no two of them share an anchor.
C22_CoveringNeighbourAnchors ==
    Touched =>
        /\ SeqRange(ret) = {validate_placement(game_state, a).value :
                              a \in CoveringNeighbourAnchors(game_state,
                                                             SeqRange(call.territory_positions))}
        /\ \A i, j \in 1..Len(ret) : ret[i].position = ret[j].position => i = j

\* Two positions of T covered by one placement whose anchor is next to both,
\* so that the placement is found from each of them.
C22_Witness ==
    /\ Touched
    /\ Len(call.territory_positions) = 2
    /\ call.territory_positions[1] # call.territory_positions[2]
    /\ \E i \in 1..Len(ret) :
          \A k \in 1..2 :
              /\ Adjacent(ret[i].position, call.territory_positions[k])
              /\ call.territory_positions[k] \in CoveredCells(game_state, ret[i].position)

\* C23: every placement of the result is one of find_all_valid_placements, and
\* one of its filled cells lands on a position of T that is a 4-neighbour of
\* its anchor; a piece whose only filled cell is its origin gives an empty
\* result.
C23_SubsetTouchingT ==
    Touched =>
        /\ \A i \in 1..Len(ret) :
              /\ ret[i] \in SeqRange(find_all_valid_placements(game_state))
              /\ \E t \in SeqRange(call.territory_positions) :
                    /\ Adjacent(ret[i].position, t)
                    /\ t \in SeqRange(placement_absolute_positions(ret[i]))
        /\ FilledCells(game_state.current_piece) = {Position(0, 0)} => ret = << >>

\* Two placements are returned, one of them reaching T on a cell that was
\* empty.
C23_Witness ==
    /\ Touched
    /\ Len(ret) >= 2
    /\ \E i \in 1..Len(ret) : \E t \in SeqRange(call.territory_positions) :
          /\ Adjacent(ret[i].position, t)
          /\ t \in SeqRange(placement_absolute_positions(ret[i]))
          /\ GridGet(game_state.grid, t) = "Empty"

(***************************************************************************)
(* One scoring pass.  score_all and select_best_placement_optimized read   *)
(* the shape of each candidate, never the snapshot's current piece, so the *)
(* candidates carry any non-empty piece at an anchor where it fits and the *)
(* snapshot's piece is held fixed.                                         *)
(***************************************************************************)
PassStones == 1
PassCandidates == 2

PassGrids ==
    {GridOf(f) : f \in UNION {[S -> Stones] :
                                 S \in {T \in StoneSets : Cardinality(T) <= PassStones}}}

PassGameStates ==
    {[player_number |-> p, grid |-> g,
      current_piece |-> [width |-> PieceW, height |-> PieceH,
                         cells |-> [y \in 0..(PieceH - 1) |-> [x \in 0..(PieceW - 1) |-> TRUE]]]] :
        p \in Players, g \in PassGrids}

PassAnchors == {Position(x, y) : x \in 0..(GridW - PieceW), y \in 0..(GridH - PieceH)}

PassPlacements ==
    {[position |-> pos, shape |-> s,
      cells_added |-> Len(get_filled_positions(s)) - 1,
      territory_touches |-> 1] :
        pos \in PassAnchors, s \in {t \in Shapes : ~shape_is_empty(t)}}

PassLists == UNION {[1..n -> PassPlacements] : n \in 0..PassCandidates}

InitPass ==
    /\ game_state \in PassGameStates
    /\ call = NoCall
    /\ ret = None
    /\ context = NewScoringContext
    /\ history = << >>

\* BatchScorer::new().score_all(placements, game_state); history keeps the
\* score_single calls of the pass.
ScorePass ==
    /\ call = NoCall
    /\ history = << >>
    /\ \E placements \in PassLists :
          \E r \in {score_all(context, placements, game_state)} :
              /\ call' = [op |-> "score_all", placements |-> placements]
              /\ ret' = r.scored
              /\ context' = r.context
              /\ history' = r.calls
    /\ UNCHANGED game_state

\* The candidate lists of one shape.
PassListsOfOneShape ==
    {l \in PassLists : \A i, j \in 1..Len(l) : l[i].shape = l[j].shape}

SelectBestOfPass ==
    /\ call = NoCall
    /\ history = << >>
    /\ \E placements \in PassListsOfOneShape :
          /\ call' = [op |-> "select_best_placement_optimized", placements |-> placements]
          /\ ret' = select_best_placement_optimized(placements, game_state)
    /\ UNCHANGED <<game_state, context, history>>

NextPass == ScorePass \/ SelectBestOfPass \/ Return

SpecPass == InitPass /\ [][NextPass]_vars

(***************************************************************************)
(* One scoring pass: what the claims speak about.                          *)
(***************************************************************************)
\* The first filled cell of a placement's shape in row-major order, moved to
\* the anchor.
FirstFilledCell(p) ==
    LET f == CHOOSE c \in FilledCells(p.shape) :
                 \A d \in FilledCells(p.shape) :
                     c.y * p.shape.width + c.x <= d.y * p.shape.width + d.x
    IN  Position(p.position.x + f.x, p.position.y + f.y)

\* The first candidate of the list with the first filled cell of candidate i.
FirstWithKey(placements, i) ==
    CHOOSE j \in 1..i :
        /\ FirstFilledCell(placements[j]) = FirstFilledCell(placements[i])
        /\ \A k \in 1..(j - 1) :
              FirstFilledCell(placements[k]) # FirstFilledCell(placements[i])

\* C24: in a score_all pass the cache key of a candidate is the absolute
\* position of its first filled cell in row-major order, and the flood-fill
\* and density contributions of a candidate are the ones computed for the
\* first candidate of the list with that key, whatever the shapes.
C24_SharedKeyContributions ==
    call.op = "score_all" =>
        \A i \in 1..Len(call.placements) :
            LET c == FirstFilledCell(call.placements[i])
                first == score_single(NewScoringContext,
                                      call.placements[FirstWithKey(call.placements, i)],
                                      game_state)
            IN  /\ history[i].key = Some(<<c.x, c.y>>)
                /\ history[i].flood_fill = first.call.flood_fill
                /\ history[i].density = first.call.density

\* Two candidates of different shapes with one key, the second of which would
\* get another flood-fill contribution if it were scored alone.
C24_Witness ==
    /\ call.op = "score_all"
    /\ Len(call.placements) = 2
    /\ call.placements[1].shape # call.placements[2].shape
    /\ call.placements[1].position # call.placements[2].position
    /\ FirstFilledCell(call.placements[1]) = FirstFilledCell(call.placements[2])
    /\ history[2].flood_fill
          # score_single(NewScoringContext, call.placements[2], game_state).call.flood_fill

\* The candidates carry one shape at anchors that differ.
OneShapeDistinctAnchors(placements) ==
    \A i, j \in 1..Len(placements) :
        /\ placements[i].shape = placements[j].shape
        /\ placements[i].position = placements[j].position => i = j

\* C25: for candidates of one shape at distinct anchors, score_all gives each
\* candidate, in input order, the score advanced_score gives it, and
\* select_best_placement_optimized answers as advanced_balanced does.
C25_PureMemoization ==
    /\ (call.op = "score_all" /\ OneShapeDistinctAnchors(call.placements)) =>
          ret = [i \in 1..Len(call.placements) |->
                    <<call.placements[i], advanced_score(call.placements[i], game_state)>>]
    /\ (/\ call.op = "select_best_placement_optimized"
        /\ OneShapeDistinctAnchors(call.placements)) =>
          ret = advanced_balanced(call.placements, game_state)

(***************************************************************************)
(* The evaluator.  rank_placements and select_best_placement are called    *)
(* with up to MaxCandidates candidates; two of the anchors are equally far *)
(* from the centre of the board, so that distinct candidates tie.          *)
(***************************************************************************)
RankPositions == {Position(GridW \div 2, GridH \div 2),
                  Position((GridW \div 2) - 1, GridH \div 2),
                  Position(GridW \div 2, (GridH \div 2) - 1)}

RankPlacements(gs) ==
    {[position |-> pos, shape |-> gs.current_piece,
      cells_added |-> m[1], territory_touches |-> m[2]] :
        pos \in RankPositions, m \in CandidateMetrics}

RankLists(gs) == UNION {[1..n -> RankPlacements(gs)] : n \in 0..MaxCandidates}

InitRank ==
    /\ game_state \in SelectGameStates
    /\ call = NoCall
    /\ ret = None
    /\ context = NewScoringContext
    /\ history = << >>

RankPlacementsCall ==
    \E placements \in RankLists(game_state) :
        /\ call = NoCall
        /\ call' = [op |-> "rank_placements", placements |-> placements]
        /\ ret' = rank_placements(placements, game_state)
        /\ UNCHANGED <<game_state, context, history>>

SelectBestPlacement ==
    \E placements \in RankLists(game_state) :
        /\ call = NoCall
        /\ call' = [op |-> "select_best_placement", placements |-> placements]
        /\ ret' = select_best_placement(placements, game_state)
        /\ UNCHANGED <<game_state, context, history>>

NextRank == RankPlacementsCall \/ SelectBestPlacement \/ Return

SpecRank == InitRank /\ [][NextRank]_vars

(***************************************************************************)
(* The evaluator: what the claims speak about.                             *)
(***************************************************************************)
\* The evaluate_placement score of candidate i of the call.
CallScore(i) == evaluate_placement(call.placements[i], game_state)

Orderings(n) == {f \in [1..n -> 1..n] : \A i, j \in 1..n : f[i] = f[j] => i = j}

\* C26: select_best_placement answers the first candidate, in input order, of
\* the highest evaluate_placement score; rank_placements answers the
\* candidates with their scores, each once, by falling score, candidates of
\* equal score in input order.
C26_FirstMaxAndStableRank ==
    /\ (call.op = "select_best_placement" /\ call.placements # << >>) =>
          ret = Some(call.placements[
                    SetMin({i \in 1..Len(call.placements) :
                               \A j \in 1..Len(call.placements) : CallScore(j) <= CallScore(i)})])
    /\ call.op = "rank_placements" =>
          \E f \in Orderings(Len(call.placements)) :
              /\ ret = [k \in 1..Len(call.placements) |->
                           <<call.placements[f[k]], CallScore(f[k])>>]
              /\ \A k, l \in 1..Len(call.placements) :
                    k < l => \/ CallScore(f[k]) > CallScore(f[l])
                             \/ CallScore(f[k]) = CallScore(f[l]) /\ f[k] < f[l]

\* Three candidates ranked: two different ones of equal score, and after them
\* one of higher score.
C26_Witness ==
    /\ call.op = "rank_placements"
    /\ Len(call.placements) = 3
    /\ call.placements[1] # call.placements[2]
    /\ CallScore(1) = CallScore(2)
    /\ CallScore(3) > CallScore(1)
    /\ ret[2][1] = call.placements[1]
    /\ ret[3][1] = call.placements[2]

(***************************************************************************)
(* The bounded flood fill.  flood_fill_bounded is called on a board with   *)
(* at most FloodStones non-empty cells, with up to MaxBoundedSeeds start   *)
(* positions, repeated or not, and a limit of up to one more than the      *)
(* number of cells of the board.                                           *)
(***************************************************************************)
MaxBoundedSeeds == 4

MaxIterations == GridW * GridH + 1

BoundedSeeds == {Position(0, 0), Position(GridW - 1, GridH - 1), Position(GridW, 0)}

BoundedSeedLists == UNION {[1..n -> BoundedSeeds] : n \in 0..MaxBoundedSeeds}

BoundedGameStates ==
    {[player_number |-> 1, grid |-> g, current_piece |-> s] :
        g \in FloodGrids,
        s \in {t \in SelectShapes : Len(get_filled_positions(t)) = 1}}

InitBounded ==
    /\ game_state \in BoundedGameStates
    /\ call = NoCall
    /\ ret = None
    /\ context = NewScoringContext
    /\ history = << >>

FloodFillBounded ==
    \E start_positions \in BoundedSeedLists : \E max_iterations \in 0..MaxIterations :
        /\ call = NoCall
        /\ call' = [op |-> "flood_fill_bounded", start_positions |-> start_positions,
                    max_iterations |-> max_iterations]
        /\ ret' = flood_fill_bounded(game_state.grid, start_positions, max_iterations)
        /\ UNCHANGED <<game_state, context, history>>

NextBounded == FloodFillBounded \/ Return

SpecBounded == InitBounded /\ [][NextBounded]_vars

(***************************************************************************)
(* The bounded flood fill: what the claims speak about.                    *)
(***************************************************************************)
Bounded == call.op = "flood_fill_bounded"

\* No position of the board occurs twice in the start positions.
NoRepeatedSeed(grid, start_positions) ==
    \A i, j \in 1..Len(start_positions) :
        (start_positions[i] = start_positions[j] /\ start_positions[i] \in CellsOf(grid))
            => i = j

\* What C27 says of every limit: 0 for the limit 0, no less than for the
\* limit below, no more than flood_fill_reachable.
BoundedBelowFull ==
    /\ call.max_iterations = 0 => ret = 0
    /\ call.max_iterations > 0 =>
          flood_fill_bounded(game_state.grid, call.start_positions,
                             call.max_iterations - 1) <= ret
    /\ ret <= flood_fill_reachable(game_state.grid, call.start_positions)

\* C27 as stated: with a limit of at least W*H the result is that of
\* flood_fill_reachable, whatever the start positions.
C27_FullAtBoardSize ==
    Bounded =>
        /\ BoundedBelowFull
        /\ call.max_iterations >= game_state.grid.width * game_state.grid.height =>
              ret = flood_fill_reachable(game_state.grid, call.start_positions)

\* C27, amended: flood_fill_bounded returns 0 for the limit 0, does not go
\* down when the limit goes up, never exceeds flood_fill_reachable, and equals
\* it for a limit of at least W*H when no position of the board occurs twice
\* in the start positions.
C27_FullAtBoardSizeDistinctSeeds ==
    Bounded =>
        /\ BoundedBelowFull
        /\ (/\ call.max_iterations >= game_state.grid.width * game_state.grid.height
            /\ NoRepeatedSeed(game_state.grid, call.start_positions)) =>
              ret = flood_fill_reachable(game_state.grid, call.start_positions)

\* Two different seeds of the board and the limit W*H: the full count, which
\* the limit 1 does not reach.
C27_Witness ==
    /\ Bounded
    /\ call.max_iterations = game_state.grid.width * game_state.grid.height
    /\ Len(call.start_positions) = 2
    /\ call.start_positions[1] # call.start_positions[2]
    /\ SeqRange(call.start_positions) \subseteq CellsOf(game_state.grid)
    /\ ret = flood_fill_reachable(game_state.grid, call.start_positions)
    /\ flood_fill_bounded(game_state.grid, call.start_positions, 1) < ret

(***************************************************************************)
(* The candidates of a turn.  The simple selectors and the batch scorer    *)
(* are given find_all_valid_placements of the snapshot, as main gives it   *)
(* to select_move_default.                                                 *)
(***************************************************************************)
InitValid ==
    /\ game_state \in TouchGameStates
    /\ call = NoCall
    /\ ret = None
    /\ context = NewScoringContext
    /\ history = << >>

SelectMoveValid ==
    \E strategy \in {"GreedyExpansion", "Balanced"} :
        LET placements == find_all_valid_placements(game_state)
        IN  /\ call = NoCall
            /\ call' = [op |-> "select_move", strategy |-> strategy,
                        placements |-> placements]
            /\ ret' = select_move(placements, game_state, strategy)
            /\ UNCHANGED <<game_state, context, history>>

ConservativeValid ==
    LET placements == find_all_valid_placements(game_state)
    IN  /\ call = NoCall
        /\ call' = [op |-> "conservative", placements |-> placements]
        /\ ret' = conservative(placements)
        /\ UNCHANGED <<game_state, context, history>>

\* A score_all pass of the scorer; history keeps the score_single calls of
\* the pass.
ScoreAllValid ==
    LET placements == find_all_valid_placements(game_state)
        r == score_all(context, placements, game_state)
    IN  /\ call = NoCall
        /\ call' = [op |-> "score_all", placements |-> placements]
        /\ ret' = r.scored
        /\ context' = r.context
        /\ history' = r.calls
        /\ UNCHANGED game_state

NextValid == SelectMoveValid \/ ConservativeValid \/ ScoreAllValid \/ Return

SpecValid == InitValid /\ [][NextValid]_vars

(***************************************************************************)
(* The candidates of a turn: what the claims speak about.                  *)
(***************************************************************************)
\* The valid anchor that comes last in the row-major scan.
LastValidAnchor(gs) ==
    CHOOSE a \in ValidAnchors(gs) :
        \A b \in ValidAnchors(gs) : RowMajor(gs, b) <= RowMajor(gs, a)

\* C28: on find_all_valid_placements of a snapshot every candidate has the
\* same cells_added and territory_touches = 1, and GreedyExpansion, Balanced
\* and Conservative each answer the placement at the last valid anchor in
\* row-major order.
C28_LastValidAnchor ==
    call.op \in {"select_move", "conservative"} =>
        /\ \A i \in 1..Len(call.placements) :
              /\ call.placements[i].cells_added = call.placements[1].cells_added
              /\ call.placements[i].territory_touches = 1
        /\ ValidAnchors(game_state) # {} =>
              /\ ret.tag = "Some"
              /\ ret.value = validate_placement(game_state, LastValidAnchor(game_state)).value

\* Conservative with valid anchors in two rows.
C28_Witness ==
    /\ call.op = "conservative"
    /\ \E a, b \in ValidAnchors(game_state) : a.y < b.y
    /\ ret.value.position = LastValidAnchor(game_state)

\* C29: on find_all_valid_placements of a snapshot no two candidates have the
\* same cache key, each score_single call runs both closures, and after the
\* pass each cache holds as many entries as there are candidates.
C29_AllMisses ==
    (call.op = "score_all" /\ ~shape_is_empty(game_state.current_piece)) =>
        /\ Len(history) = Len(call.placements)
        /\ \A i, j \in 1..Len(call.placements) :
              FirstFilledCell(call.placements[i]) = FirstFilledCell(call.placements[j])
                  => i = j
        /\ \A i \in 1..Len(history) :
              /\ history[i].flood_fill_invoked
              /\ history[i].density_invoked
        /\ CacheEntries(context.flood_fill_cache) = Len(call.placements)
        /\ CacheEntries(context.density_cache) = Len(call.placements)

\* A pass over two candidates in one row, with a piece whose origin is not
\* filled.
C29_Witness ==
    /\ call.op = "score_all"
    /\ Position(0, 0) \notin FilledCells(game_state.current_piece)
    /\ \E i, j \in 1..Len(call.placements) :
          /\ i # j
          /\ call.placements[i].position.y = call.placements[j].position.y
    /\ CacheEntries(context.flood_fill_cache) = Len(call.placements)

(***************************************************************************)
(* The traversal of flood_fill_reachable, one pass of its while loop at a  *)
(* time.  call holds the locals of the running call (queue, visited,       *)
(* reachable_count) and history every cell given to visited.insert, with   *)
(* whether it was pushed on the queue.  The start positions are the cells  *)
(* of a placement, as analyze_flood_fill passes them: no position twice.   *)
(* The board holds at most TraversalStones non-empty cells.                *)
(***************************************************************************)
TraversalStones == 1

TraversalGameStates ==
    {gs \in BoundedGameStates :
        Cardinality({c \in CellsOf(gs.grid) : gs.grid.cells[c.y][c.x] # "Empty"})
            <= TraversalStones}

TraversalSeedLists ==
    {l \in SeedLists : \A i, j \in 1..Len(l) : l[i] = l[j] => i = j}

InitTraversal ==
    /\ game_state \in TraversalGameStates
    /\ call = NoCall
    /\ ret = None
    /\ context = NewScoringContext
    /\ history = << >>

\* The call and its seeding loop.
TraversalBegin ==
    \E start_positions \in TraversalSeedLists :
        LET st == FloodStart(game_state.grid, start_positions)
        IN  /\ call = NoCall
            /\ call' = [op |-> "flood_fill_reachable", start_positions |-> start_positions,
                        st |-> st, pc |-> "while"]
            /\ history' = [i \in 1..Len(st.queue) |-> [cell |-> st.queue[i], pushed |-> TRUE]]
            /\ UNCHANGED <<game_state, ret, context>>

\* What one neighbour adds to the log: s0 is the state before its visit.
VisitLog(grid, neighbor, s0) ==
    LET s1 == FloodVisit(grid, neighbor, s0)
    IN  IF s1.visited # s0.visited
        THEN << [cell |-> neighbor, pushed |-> Len(s1.queue) > Len(s0.queue)] >>
        ELSE << >>

\* One pass of the while loop.
TraversalStep ==
    /\ call # NoCall
    /\ call.pc = "while"
    /\ call.st.queue # << >>
    /\ LET grid == game_state.grid
           n == Neighbors4(Head(call.st.queue))
           s0 == [call.st EXCEPT !.queue = Tail(@)]
           s1 == FloodVisit(grid, n[1], s0)
           s2 == FloodVisit(grid, n[2], s1)
           s3 == FloodVisit(grid, n[3], s2)
       IN  /\ call' = [call EXCEPT !.st = FloodStep(grid, call.st)]
           /\ history' = history \o VisitLog(grid, n[1], s0) \o VisitLog(grid, n[2], s1)
                                 \o VisitLog(grid, n[3], s2) \o VisitLog(grid, n[4], s3)
    /\ UNCHANGED <<game_state, ret, context>>

\* pop_front gives None: the loop ends and reachable_count is returned (as a
\* record, which None is too).
TraversalEnd ==
    /\ call # NoCall
    /\ call.pc = "while"
    /\ call.st.queue = << >>
    /\ call' = [call EXCEPT !.pc = "return"]
    /\ ret' = [tag |-> "usize", value |-> call.st.reachable_count]
    /\ UNCHANGED <<game_state, context, history>>

NextTraversal == TraversalBegin \/ TraversalStep \/ TraversalEnd

\* The call runs to its end once made: nothing suspends it.
SpecTraversal == InitTraversal /\ [][NextTraversal]_vars /\ WF_vars(NextTraversal)

(***************************************************************************)
(* The traversal: what the claims speak about.                             *)
(***************************************************************************)
Traversing == call # NoCall /\ call.pc = "while"

Returned == call # NoCall /\ call.pc = "return"

EmptyCells(grid) == {c \in CellsOf(grid) : grid.cells[c.y][c.x] = "Empty"}

\* No cell is given to visited.insert twice, so none is pushed twice; a pushed
\* cell is a start position on the board or an Empty cell; the count is at
\* most the number of Empty cells.
TraversalBounded ==
    call # NoCall =>
        /\ \A i, j \in 1..Len(history) : history[i].cell = history[j].cell => i = j
        /\ {history[i].cell : i \in 1..Len(history)} = call.st.visited
        /\ \A i \in 1..Len(history) :
              history[i].pushed =>
                  \/ /\ history[i].cell \in SeqRange(call.start_positions)
                     /\ history[i].cell \in CellsOf(game_state.grid)
                  \/ history[i].cell \in EmptyCells(game_state.grid)
        /\ call.st.reachable_count <= Cardinality(EmptyCells(game_state.grid))

====
